---- MODULE Spec2Model ----
(***************************************************************************)
(* A model of the br-ow-ser rendering pipeline: the CSS parser (css.rs),   *)
(* the style stage (style.rs, dom.rs), and the layout engine and display   *)
(* list builder that main.rs calls (layout::layout_tree, painting::paint). *)
(*                                                                         *)
(* Rust Strings are TLA+ strings; a String that the code scans character   *)
(* by character (parser input, the class attribute) is a sequence of       *)
(* one-character strings.  Option<T> is a record [some, v]; a HashMap is a *)
(* function whose DOMAIN is its key set.  f32 lengths are integers (the    *)
(* inputs are chosen so that every division the code performs is exact).   *)
(***************************************************************************)
EXTENDS Integers, Sequences, FiniteSets, TLC

VARIABLES
    root_node,      \* style stage: the DOM tree handed to style_tree
    stylesheet,     \* style stage: the Stylesheet handed to style_tree
    style_root,     \* style stage: the StyledNode tree returned (or NoValue)
    style_pc,       \* style stage: "idle" | "start" | "styled" | "panic"
    css_input,      \* css::Parser.input (sequence of characters)
    css_pos,        \* css::Parser.pos (byte offset)
    css_rules,      \* the `rules` vector of Parser::parse_rules
    css_pc,         \* css parser: "idle" | "parsing" | "done" | "panic"
    css_panic,      \* the panic message when css_pc = "panic", "" otherwise
    lay_styled,     \* layout: the styled tree handed to layout_tree
    layout_root,    \* layout: the LayoutBox tree returned (or NoValue)
    display_list,   \* painting: the display list built from layout_root
    lay_pc,         \* layout: "idle" | "start" | "no_tree" | "laid_out" | "listed"
                    \*         | "painting" | "painted"
    paint_bounds,   \* painting: the Rect handed to paint (the canvas size)
    canvas,         \* painting: the Canvas being painted (or NoValue)
    paint_next,     \* painting: index of the next display command to paint
    pdf_out,        \* pdf: the bytes written to the output, in chunks
    pdf_offsets,    \* pdf: the byte offsets recorded for the objects written
    pdf_xref_at,    \* pdf: the byte offset of the cross-reference table
    pdf_next,       \* pdf: number of the next object to write
    pdf_pc,         \* pdf: "idle" | "start" | "objects" | "xref" | "trailer"
                    \*      | "done" | "failed"
    pdf_result,     \* pdf: what render returns: "none" | "ok" | "err"
    html_tokens,    \* html: the pieces the source text is made of
    html_input,     \* html::Parser.input (sequence of UTF-8 bytes)
    html_pos,       \* html::Parser.pos (byte offset)
    html_nodes,     \* html: the `nodes` vector of the top-level parse_nodes
    html_root,      \* html: the Node html::parse returns (or NoValue)
    html_pc         \* html: "idle" | "parsing" | "done" | "panic"

vars == <<root_node, stylesheet, style_root, style_pc,
          css_input, css_pos, css_rules, css_pc, css_panic,
          lay_styled, layout_root, display_list, lay_pc,
          paint_bounds, canvas, paint_next,
          pdf_out, pdf_offsets, pdf_xref_at, pdf_next, pdf_pc, pdf_result,
          html_tokens, html_input, html_pos, html_nodes, html_root, html_pc>>

styleVars == <<root_node, stylesheet, style_root, style_pc>>
cssVars == <<css_input, css_pos, css_rules, css_pc, css_panic>>
layVars == <<lay_styled, layout_root, display_list, lay_pc>>
paintVars == <<paint_bounds, canvas, paint_next>>
pdfVars == <<pdf_out, pdf_offsets, pdf_xref_at, pdf_next, pdf_pc, pdf_result>>
htmlVars == <<html_tokens, html_input, html_pos, html_nodes, html_root, html_pc>>

----------------------------------------------------------------------------
(* Generic helpers.                                                        *)

\* Option<T>
None == [some |-> FALSE]
Some(x) == [some |-> TRUE, v |-> x]

\* A value that stands for "nothing was returned" (the call panicked or has
\* not run).
NoValue == [absent |-> TRUE]

\* HashMap::new()
EmptyMap == [k \in {} |-> 0]

\* HashMap::insert
MapInsert(m, k, x) == (k :> x) @@ m

\* String built from a sequence of characters (String::push in a loop).
RECURSIVE Str(_)
Str(cs) == IF cs = <<>> THEN "" ELSE Head(cs) \o Str(Tail(cs))

Front(s) == SubSeq(s, 1, Len(s) - 1)
Last(s) == s[Len(s)]

\* All sequences over S of length at most n.
SeqsUpTo(S, n) == UNION {[1..k -> S] : k \in 0..n}

RECURSIVE SumSeq(_)
SumSeq(s) == IF s = <<>> THEN 0 ELSE Head(s) + SumSeq(Tail(s))

----------------------------------------------------------------------------
(* cssom / css.rs data types.                                              *)

Px == "Px"

Keyword(s) == [type |-> "Keyword", s |-> s]
Length(f, u) == [type |-> "Length", f |-> f, unit |-> u]
ColorValue(r, g, b, a) == [type |-> "ColorValue", r |-> r, g |-> g, b |-> b, a |-> a]

Declaration(name, value) == [name |-> name, value |-> value]
SimpleSelector(tag_name, id, class) == [tag_name |-> tag_name, id |-> id, class |-> class]
Rule(selectors, declarations) == [selectors |-> selectors, declarations |-> declarations]

\* Selector::specificity: (ids, classes, tag names).
specificity(selector) ==
    << IF selector.id.some THEN 1 ELSE 0,
       Len(selector.class),
       IF selector.tag_name.some THEN 1 ELSE 0 >>

\* Ord for (usize, usize, usize): lexicographic.  -1, 0 or 1.
cmp(a, b) ==
    IF a[1] # b[1] THEN (IF a[1] < b[1] THEN -1 ELSE 1)
    ELSE IF a[2] # b[2] THEN (IF a[2] < b[2] THEN -1 ELSE 1)
    ELSE IF a[3] # b[3] THEN (IF a[3] < b[3] THEN -1 ELSE 1)
    ELSE 0

\* Value::to_px
to_px(value) == IF value.type = "Length" /\ value.unit = Px THEN value.f ELSE 0

----------------------------------------------------------------------------
(* css.rs: the parser.  Every parsing method is an operator from the input *)
(* and the position to a result [ok, pos, v, msg]: ok with the new         *)
(* position and the value returned, or a panic with its message.           *)

R(pos, v) == [ok |-> TRUE, pos |-> pos, v |-> v, msg |-> ""]
Panicked(msg) == [ok |-> FALSE, pos |-> 0, v |-> NoValue, msg |-> msg]

\* Sequencing: a panic ends the method, a result goes on to the next step.
\* The step x is taken once and its result named r.
Then(x, F(_)) == CHOOSE out \in { IF ~r.ok THEN r ELSE F(r) : r \in {x} } : TRUE

\* The input is the sequence of its UTF-8 bytes.  A one-byte character is
\* the byte itself; a longer character is a lead byte, named by the
\* character, and continuation bytes.
Cont == "<cont>"

\* str::is_char_boundary, for 0 <= pos; the end of the input is a boundary.
is_char_boundary(inp, pos) == pos = Len(inp) \/ (pos < Len(inp) /\ inp[pos + 1] # Cont)

\* The number of bytes of the character that starts at byte offset pos.
RECURSIVE len_utf8(_, _)
len_utf8(inp, pos) ==
    IF pos + 1 < Len(inp) /\ inp[pos + 2] = Cont THEN 1 + len_utf8(inp, pos + 1) ELSE 1

\* String::len: the length in bytes.
byte_len(inp) == Len(inp)

LowerChars == {"a","b","c","d","e","f","g","h","i","j","k","l","m",
               "n","o","p","q","r","s","t","u","v","w","x","y","z"}
UpperChars == {"A","B","C","D","E","F","G","H","I","J","K","L","M",
               "N","O","P","Q","R","S","T","U","V","W","X","Y","Z"}
DigitChars == {"0","1","2","3","4","5","6","7","8","9"}
DigitSeq == <<"0","1","2","3","4","5","6","7","8","9">>
UpperSeq == <<"A","B","C","D","E","F","G","H","I","J","K","L","M",
              "N","O","P","Q","R","S","T","U","V","W","X","Y","Z">>
LowerSeq == <<"a","b","c","d","e","f","g","h","i","j","k","l","m",
              "n","o","p","q","r","s","t","u","v","w","x","y","z">>

DigitVal(c) == (CHOOSE i \in 1..10 : DigitSeq[i] = c) - 1

\* char::to_ascii_lowercase
to_ascii_lowercase_char(c) ==
    IF c \in UpperChars THEN LowerSeq[CHOOSE i \in 1..26 : UpperSeq[i] = c] ELSE c

\* str::to_ascii_lowercase
to_ascii_lowercase(cs) == [i \in 1..Len(cs) |-> to_ascii_lowercase_char(cs[i])]

\* char::is_whitespace, on the characters of the inputs
is_whitespace(c) == c \in {" ", "\n", "\t"}

\* valid_identifier_char
valid_identifier_char(c) ==
    c \in LowerChars \cup UpperChars \cup DigitChars \cup {"-", "_"}

\* The closure of parse_float
float_char(c) == c \in DigitChars \cup {"."}

\* The predicates handed to consume_while, by name.
Test(kind, c) ==
    CASE kind = "whitespace" -> is_whitespace(c)
      [] kind = "identifier" -> valid_identifier_char(c)
      [] kind = "float" -> float_char(c)
      [] kind = "tag_name" -> c \in LowerChars \cup UpperChars \cup DigitChars
      [] kind = "text" -> c # "<"
      [] kind = "double_quoted" -> c # "\""
      [] kind = "single_quoted" -> c # "'"

\* Parser::eof
eof(inp, pos) == pos >= byte_len(inp)

\* Parser::next_char: input[pos..] must be a slice on a character boundary
\* and must not be empty.
next_char(inp, pos) ==
    IF pos < byte_len(inp) /\ is_char_boundary(inp, pos) THEN R(pos, inp[pos + 1])
    ELSE Panicked("next_char")

\* Parser::consume_char: the position advances to the offset of the next
\* character, or by 1 when there is none.
consume_char(inp, pos) ==
    IF pos < byte_len(inp) /\ is_char_boundary(inp, pos)
    THEN R(pos + (IF pos + len_utf8(inp, pos) < byte_len(inp) THEN len_utf8(inp, pos) ELSE 1),
           inp[pos + 1])
    ELSE Panicked("consume_char")

\* Parser::consume_while
RECURSIVE consume_while(_, _, _)
consume_while(inp, pos, kind) ==
    IF eof(inp, pos) THEN R(pos, <<>>)
    ELSE Then(next_char(inp, pos), LAMBDA c :
         IF ~Test(kind, c.v) THEN R(pos, <<>>)
         ELSE Then(consume_char(inp, pos), LAMBDA cc :
              Then(consume_while(inp, cc.pos, kind), LAMBDA rest :
              R(rest.pos, <<cc.v>> \o rest.v))))

\* Parser::consume_whitespace
consume_whitespace(inp, pos) == consume_while(inp, pos, "whitespace")

\* Parser::parse_identifier
parse_identifier(inp, pos) == consume_while(inp, pos, "identifier")

\* assert_eq!(self.consume_char(), c)
expect_char(inp, pos, c) ==
    Then(consume_char(inp, pos), LAMBDA cc :
    IF cc.v # c THEN Panicked("assertion failed: " \o c) ELSE cc)

\* str::parse::<f32>: digits with at most one point; the value is the
\* integer part when the fraction is zero, the decimal digits otherwise.
RECURSIVE DigitsValue(_)
DigitsValue(ds) == IF ds = <<>> THEN 0 ELSE 10 * DigitsValue(Front(ds)) + DigitVal(Last(ds))

RECURSIVE StripZeros(_)
StripZeros(ds) ==
    IF ds # <<>> /\ Last(ds) = "0" THEN StripZeros(Front(ds)) ELSE ds

Decimal(whole, frac) ==
    IF frac = <<>> THEN DigitsValue(whole)
    ELSE [whole |-> DigitsValue(whole), frac |-> Str(frac)]

parse_f32(cs) ==
    LET dots == {i \in 1..Len(cs) : cs[i] = "."}
    IN  IF Cardinality(dots) > 1 \/ Len(cs) = Cardinality(dots) THEN None
        ELSE IF dots = {} THEN Some(DigitsValue(cs))
        ELSE Some(CHOOSE x \in {Decimal(SubSeq(cs, 1, d - 1),
                                        StripZeros(SubSeq(cs, d + 1, Len(cs)))) : d \in dots} :
                    TRUE)

\* Parser::parse_float
parse_float(inp, pos) ==
    Then(consume_while(inp, pos, "float"), LAMBDA s :
    IF ~parse_f32(s.v).some THEN Panicked("parse_float")
    ELSE R(s.pos, parse_f32(s.v).v))

\* A variant that takes an unknown unit for pixels.
parse_unit_default_px(inp, pos) ==
    Then(consume_while(inp, pos, "identifier"), LAMBDA ident : R(ident.pos, Px))

\* Parser::parse_unit
parse_unit(inp, pos) ==
    Then(parse_identifier(inp, pos), LAMBDA ident :
    IF Str(to_ascii_lowercase(ident.v)) = "px" THEN R(ident.pos, Px)
    ELSE Panicked("unrecognized unit"))

\* Parser::parse_length
parse_length(inp, pos) ==
    Then(parse_float(inp, pos), LAMBDA f :
    Then(parse_unit(inp, f.pos), LAMBDA u :
    R(u.pos, Length(f.v, u.v))))

HexSeq == <<"0","1","2","3","4","5","6","7","8","9","a","b","c","d","e","f">>
HexVal(c) == (CHOOSE i \in 1..16 : HexSeq[i] = to_ascii_lowercase_char(c)) - 1
is_hex(c) == \E i \in 1..16 : HexSeq[i] = to_ascii_lowercase_char(c)

\* u8::from_str_radix(s, 16) on a two-byte slice: two hex digits, or a plus
\* sign and one hex digit.
from_str_radix16(cs) ==
    IF Len(cs) = 2 /\ is_hex(cs[1]) /\ is_hex(cs[2]) THEN Some(16 * HexVal(cs[1]) + HexVal(cs[2]))
    ELSE IF Len(cs) = 2 /\ cs[1] = "+" /\ is_hex(cs[2]) THEN Some(HexVal(cs[2]))
    ELSE None

\* The characters of the slice input[pos..pos+2]; None when the slice is out
\* of range or does not lie on character boundaries.
slice2(inp, pos) ==
    IF pos + 2 <= byte_len(inp) /\ is_char_boundary(inp, pos) /\ is_char_boundary(inp, pos + 2)
    THEN Some(IF inp[pos + 2] = Cont THEN <<inp[pos + 1]>> ELSE <<inp[pos + 1], inp[pos + 2]>>)
    ELSE None

\* Parser::parse_hex_pair
parse_hex_pair(inp, pos) ==
    IF ~slice2(inp, pos).some THEN Panicked("parse_hex_pair: slice")
    ELSE IF ~from_str_radix16(slice2(inp, pos).v).some THEN Panicked("parse_hex_pair: digit")
    ELSE R(pos + 2, from_str_radix16(slice2(inp, pos).v).v)

\* A variant that takes the pairs for blue, green and red.
parse_color_bgr(inp, pos) ==
    Then(expect_char(inp, pos, "#"), LAMBDA h :
    Then(parse_hex_pair(inp, h.pos), LAMBDA r :
    Then(parse_hex_pair(inp, r.pos), LAMBDA g :
    Then(parse_hex_pair(inp, g.pos), LAMBDA b :
    R(b.pos, ColorValue(b.v, g.v, r.v, 255))))))

\* Parser::parse_color
parse_color(inp, pos) ==
    Then(expect_char(inp, pos, "#"), LAMBDA h :
    Then(parse_hex_pair(inp, h.pos), LAMBDA r :
    Then(parse_hex_pair(inp, r.pos), LAMBDA g :
    Then(parse_hex_pair(inp, g.pos), LAMBDA b :
    R(b.pos, ColorValue(r.v, g.v, b.v, 255))))))

\* Parser::parse_value
parse_value(inp, pos) ==
    Then(next_char(inp, pos), LAMBDA c :
    IF c.v \in DigitChars THEN parse_length(inp, pos)
    ELSE IF c.v = "#" THEN parse_color(inp, pos)
    ELSE Then(parse_identifier(inp, pos), LAMBDA ident :
         R(ident.pos, Keyword(Str(ident.v)))))

\* Parser::parse_declaration
parse_declaration(inp, pos) ==
    Then(parse_identifier(inp, pos), LAMBDA name :
    Then(consume_whitespace(inp, name.pos), LAMBDA w1 :
    Then(expect_char(inp, w1.pos, ":"), LAMBDA colon :
    Then(consume_whitespace(inp, colon.pos), LAMBDA w2 :
    Then(parse_value(inp, w2.pos), LAMBDA val :
    Then(consume_whitespace(inp, val.pos), LAMBDA w3 :
    Then(expect_char(inp, w3.pos, ";"), LAMBDA semi :
    R(semi.pos, Declaration(Str(name.v), val.v)))))))))

\* The loop of Parser::parse_declarations
RECURSIVE declarations_loop(_, _, _)
declarations_loop(inp, pos, declarations) ==
    Then(consume_whitespace(inp, pos), LAMBDA w :
    Then(next_char(inp, w.pos), LAMBDA c :
    IF c.v = "}" THEN Then(consume_char(inp, w.pos), LAMBDA cc : R(cc.pos, declarations))
    ELSE Then(parse_declaration(inp, w.pos), LAMBDA d :
         declarations_loop(inp, d.pos, Append(declarations, d.v)))))

\* Parser::parse_declarations
parse_declarations(inp, pos) ==
    Then(expect_char(inp, pos, "{"), LAMBDA open : declarations_loop(inp, open.pos, <<>>))

\* self.consume_char(); self.parse_identifier()
char_then_identifier(inp, pos) ==
    Then(consume_char(inp, pos), LAMBDA cc : parse_identifier(inp, cc.pos))

\* Parser::parse_simple_selector
RECURSIVE simple_selector_loop(_, _, _)
simple_selector_loop(inp, pos, selector) ==
    IF eof(inp, pos) THEN R(pos, selector)
    ELSE Then(next_char(inp, pos), LAMBDA c :
         IF c.v = "#" THEN
             Then(char_then_identifier(inp, pos), LAMBDA ident :
             simple_selector_loop(inp, ident.pos, [selector EXCEPT !.id = Some(Str(ident.v))]))
         ELSE IF c.v = "." THEN
             Then(char_then_identifier(inp, pos), LAMBDA ident :
             simple_selector_loop(inp, ident.pos,
                                  [selector EXCEPT !.class = Append(@, Str(ident.v))]))
         ELSE IF c.v = "*" THEN
             Then(consume_char(inp, pos), LAMBDA cc :
             simple_selector_loop(inp, cc.pos, selector))
         ELSE IF valid_identifier_char(c.v) THEN
             Then(parse_identifier(inp, pos), LAMBDA ident :
             simple_selector_loop(inp, ident.pos,
                                  [selector EXCEPT !.tag_name = Some(Str(ident.v))]))
         ELSE R(pos, selector))

parse_simple_selector(inp, pos) ==
    simple_selector_loop(inp, pos, SimpleSelector(None, None, <<>>))

\* A comparator that puts the lowest specificity first.
selector_order_ascending(a, b) == cmp(specificity(a), specificity(b))

\* The comparator of selectors.sort_by in parse_selectors: highest
\* specificity first.
selector_order(a, b) == cmp(specificity(b), specificity(a))

RECURSIVE insert_selector(_, _)
insert_selector(sorted, sel) ==
    IF sorted = <<>> THEN <<sel>>
    ELSE IF selector_order(Last(sorted), sel) <= 0 THEN Append(sorted, sel)
    ELSE Append(insert_selector(Front(sorted), sel), Last(sorted))

RECURSIVE sort_selectors(_)
sort_selectors(sels) ==
    IF sels = <<>> THEN <<>> ELSE insert_selector(sort_selectors(Front(sels)), Last(sels))

\* self.consume_char(); self.consume_whitespace()
char_then_whitespace(inp, pos) ==
    Then(consume_char(inp, pos), LAMBDA cc : consume_whitespace(inp, cc.pos))

\* The loop of Parser::parse_selectors
RECURSIVE selectors_loop(_, _, _)
selectors_loop(inp, pos, selectors) ==
    Then(parse_simple_selector(inp, pos), LAMBDA sel :
    Then(consume_whitespace(inp, sel.pos), LAMBDA w :
    Then(next_char(inp, w.pos), LAMBDA c :
    IF c.v = "," THEN
        Then(char_then_whitespace(inp, w.pos), LAMBDA w2 :
        selectors_loop(inp, w2.pos, Append(selectors, sel.v)))
    ELSE IF c.v = "{" THEN R(w.pos, Append(selectors, sel.v))
    ELSE Panicked("Unexpected character in selector list"))))

\* Parser::parse_selectors
parse_selectors(inp, pos) ==
    Then(selectors_loop(inp, pos, <<>>), LAMBDA sels : R(sels.pos, sort_selectors(sels.v)))

\* A variant that stores the declarations of a block last first.
parse_rule_declarations_reversed(inp, pos) ==
    Then(parse_selectors(inp, pos), LAMBDA sels :
    Then(parse_declarations(inp, sels.pos), LAMBDA decls :
    R(decls.pos, Rule(sels.v, [i \in 1..Len(decls.v) |-> decls.v[Len(decls.v) + 1 - i]]))))

\* Parser::parse_rule
parse_rule(inp, pos) ==
    Then(parse_selectors(inp, pos), LAMBDA sels :
    Then(parse_declarations(inp, sels.pos), LAMBDA decls :
    R(decls.pos, Rule(sels.v, decls.v))))

\* A variant that ends the loop at a rule it cannot parse.
parse_rules_iteration_dropping_cut_rule(inp, pos) ==
    Then(consume_whitespace(inp, pos), LAMBDA w :
    IF eof(inp, w.pos) \/ ~parse_rule(inp, w.pos).ok THEN R(w.pos, NoValue)
    ELSE parse_rule(inp, w.pos))

\* A variant that hands the rule back with the cursor where it was.
parse_rules_iteration_cursor_kept(inp, pos) ==
    Then(consume_whitespace(inp, pos), LAMBDA w :
    IF eof(inp, w.pos) THEN R(w.pos, NoValue)
    ELSE Then(parse_rule(inp, w.pos), LAMBDA rule : R(pos, rule.v)))

\* One iteration of the loop of Parser::parse_rules: the rule parsed, or
\* [ok, pos, v = NoValue] when the input has ended, or the panic.
parse_rules_iteration(inp, pos) ==
    Then(consume_whitespace(inp, pos), LAMBDA w :
    IF eof(inp, w.pos) THEN R(w.pos, NoValue) ELSE parse_rule(inp, w.pos))

----------------------------------------------------------------------------
(* dom.rs                                                                  *)

text(data) == [children |-> <<>>, node_type |-> [kind |-> "Text", data |-> data]]
elem(name, attrs, children) ==
    [children |-> children,
     node_type |-> [kind |-> "Element", tag_name |-> name, attributes |-> attrs]]
processing_instruction(target, data) ==
    [children |-> <<>>,
     node_type |-> [kind |-> "ProcessingInstruction", target |-> target, data |-> data]]
comment(data) == [children |-> <<>>, node_type |-> [kind |-> "Comment", data |-> data]]

\* ElementData::id
id(e) == IF "id" \in DOMAIN e.attributes THEN Some(Str(e.attributes["id"])) ELSE None

\* str::split(' '): the pieces between single spaces, empty pieces included.
RECURSIVE SplitSpace(_, _)
SplitSpace(cs, cur) ==
    IF cs = <<>> THEN {Str(cur)}
    ELSE IF Head(cs) = " " THEN {Str(cur)} \cup SplitSpace(Tail(cs), <<>>)
    ELSE SplitSpace(Tail(cs), Append(cur, Head(cs)))

\* A variant that takes the whole attribute value for one class.
classes_unsplit(e) ==
    IF "class" \in DOMAIN e.attributes THEN {Str(e.attributes["class"])} ELSE {}

\* ElementData::classes
classes(e) ==
    IF "class" \in DOMAIN e.attributes THEN SplitSpace(e.attributes["class"], <<>>) ELSE {}

----------------------------------------------------------------------------
(* style.rs                                                                *)

\* matches_simple_selector
matches_simple_selector(e, selector) ==
    IF selector.tag_name.some /\ e.tag_name # selector.tag_name.v THEN FALSE
    ELSE IF selector.id.some /\ id(e) # Some(selector.id.v) THEN FALSE
    ELSE IF \E i \in 1..Len(selector.class) : selector.class[i] \notin classes(e) THEN FALSE
    ELSE TRUE

\* matches
matches(e, selector) == matches_simple_selector(e, selector)

\* match_rule: the first selector of the rule that matches, with its specificity.
match_rule(e, rule) ==
    LET hits == {i \in 1..Len(rule.selectors) : matches(e, rule.selectors[i])}
    IN  IF hits = {} THEN None
        ELSE LET first == CHOOSE i \in hits : \A j \in hits : i <= j
             IN  Some([specificity |-> specificity(rule.selectors[first]), rule |-> rule])

\* matching_rules: filter_map over the rules, in stylesheet order.
RECURSIVE matching_rules_from(_, _, _)
matching_rules_from(e, rules, i) ==
    IF i > Len(rules) THEN <<>>
    ELSE LET m == match_rule(e, rules[i])
         IN  (IF m.some THEN <<m.v>> ELSE <<>>) \o matching_rules_from(e, rules, i + 1)

matching_rules(e, sheet) == matching_rules_from(e, sheet.rules, 1)

\* A comparator that puts a rule before the rules of equal specificity.
rule_order_ties_first(a, b) ==
    IF cmp(a.specificity, b.specificity) = 0 THEN 1 ELSE cmp(a.specificity, b.specificity)

\* A comparator that orders by descending specificity.
rule_order_descending(a, b) == cmp(b.specificity, a.specificity)

\* The comparator of rules.sort_by in specified_values.
rule_order(a, b) == cmp(a.specificity, b.specificity)

\* slice::sort_by (stable): an element goes after everything not greater than it.
RECURSIVE insert_sorted(_, _)
insert_sorted(sorted, m) ==
    IF sorted = <<>> THEN <<m>>
    ELSE IF rule_order(Last(sorted), m) <= 0 THEN Append(sorted, m)
    ELSE Append(insert_sorted(Front(sorted), m), Last(sorted))

RECURSIVE sort_by(_)
sort_by(ms) == IF ms = <<>> THEN <<>> ELSE insert_sorted(sort_by(Front(ms)), Last(ms))

\* The inner loop of specified_values: insert every declaration, in order.
RECURSIVE insert_declarations(_, _)
insert_declarations(values, decls) ==
    IF decls = <<>> THEN values
    ELSE insert_declarations(MapInsert(values, Head(decls).name, Head(decls).value),
                             Tail(decls))

RECURSIVE apply_rules(_, _)
apply_rules(values, ms) ==
    IF ms = <<>> THEN values
    ELSE apply_rules(insert_declarations(values, Head(ms).rule.declarations), Tail(ms))

\* specified_values
specified_values(e, sheet) == apply_rules(EmptyMap, sort_by(matching_rules(e, sheet)))

\* The match on root.node_type in style_tree: Some(map), or None where the
\* code reaches todo!().
node_values(node, sheet) ==
    CASE node.node_type.kind = "Element" -> Some(specified_values(node.node_type, sheet))
      [] node.node_type.kind = "Text" -> Some(EmptyMap)
      [] OTHER -> None

\* A variant that collects the styled children in reverse order.
RECURSIVE style_tree_children_reversed(_, _)
style_tree_children_reversed(root, sheet) ==
    LET values == node_values(root, sheet)
        count == Len(root.children)
        kids == [i \in 1..count |->
                    style_tree_children_reversed(root.children[count + 1 - i], sheet)]
    IN  IF ~values.some THEN NoValue
        ELSE IF \E i \in 1..Len(kids) : kids[i] = NoValue THEN NoValue
        ELSE [node |-> root, specified_values |-> values.v, children |-> kids]

\* style_tree: the StyledNode, or NoValue when the call panics.
RECURSIVE style_tree(_, _)
style_tree(root, sheet) ==
    LET values == node_values(root, sheet)
        kids == [i \in 1..Len(root.children) |-> style_tree(root.children[i], sheet)]
    IN  IF ~values.some THEN NoValue
        ELSE IF \E i \in 1..Len(kids) : kids[i] = NoValue THEN NoValue
        ELSE [node |-> root, specified_values |-> values.v, children |-> kids]

\* A variant that answers with the keyword `auto` for a name the mapping
\* does not contain.
value_auto_when_absent(sn, name) ==
    IF name \in DOMAIN sn.specified_values THEN Some(sn.specified_values[name])
    ELSE Some(Keyword("auto"))

\* StyledNode::value
value(sn, name) ==
    IF name \in DOMAIN sn.specified_values THEN Some(sn.specified_values[name]) ELSE None

\* A variant that never looks at the fallback name.
lookup_without_fallback(sn, name, fallback_name, default) ==
    IF value(sn, name).some THEN value(sn, name).v ELSE default

\* StyledNode::lookup
lookup(sn, name, fallback_name, default) ==
    IF value(sn, name).some THEN value(sn, name).v
    ELSE IF value(sn, fallback_name).some THEN value(sn, fallback_name).v
    ELSE default

\* A variant that does not know the keyword `none`.
display_none_as_inline(sn) ==
    LET d == IF "display" \in DOMAIN sn.specified_values
             THEN Some(sn.specified_values["display"]) ELSE None
    IN  IF d.some /\ d.v.type = "Keyword" /\ d.v.s = "block" THEN "Block" ELSE "Inline"

\* A variant whose default arm is taken only for `none`.
display_block_by_default(sn) ==
    LET d == IF "display" \in DOMAIN sn.specified_values
             THEN Some(sn.specified_values["display"]) ELSE None
    IN  IF d.some /\ d.v.type = "Keyword"
        THEN (IF d.v.s = "none" THEN "None" ELSE "Block")
        ELSE "Inline"

\* StyledNode::display
display(sn) ==
    LET d == value(sn, "display")
    IN  IF d.some /\ d.v.type = "Keyword"
        THEN (CASE d.v.s = "block" -> "Block"
                [] d.v.s = "none" -> "None"
                [] OTHER -> "Inline")
        ELSE "Inline"

----------------------------------------------------------------------------
(* The style stage as a state machine: main.rs hands a DOM tree and a      *)
(* Stylesheet to style::style_tree.                                        *)

MaxChildren == 2    \* children per DOM element in the style inputs
MaxRules == 2       \* rules per stylesheet in the style inputs

NoAttrs == EmptyMap
IdAttr(i) == "id" :> i
ClassAttr(c) == "class" :> c

StyleLeaves ==
    { text("hi"),
      comment("note"),
      processing_instruction("xml", "v"),
      elem("div", IdAttr(<<"x">>) @@ ClassAttr(<<"c", " ", "d">>), <<>>),
      elem("p", ClassAttr(<<"c">>), <<>>),
      elem("p", NoAttrs, <<comment("deep")>>) }

StyleDoms ==
    { elem("div", NoAttrs, kids) : kids \in SeqsUpTo(StyleLeaves, MaxChildren) }
    \cup { elem("div", IdAttr(<<"x">>) @@ ClassAttr(<<"c">>), kids) :
             kids \in SeqsUpTo(StyleLeaves, MaxChildren) }
    \cup { text("alone"), comment("alone") }

StyleRules ==
    { Rule(<<SimpleSelector(Some("div"), None, <<>>)>>,
           <<Declaration("display", Keyword("block"))>>),
      Rule(<<SimpleSelector(None, None, <<"c">>)>>,
           <<Declaration("display", Keyword("none"))>>),
      Rule(<<SimpleSelector(None, Some("x"), <<>>)>>,
           <<Declaration("display", Keyword("flex"))>>),
      Rule(<<SimpleSelector(None, None, <<"c", "d">>), SimpleSelector(Some("p"), None, <<>>)>>,
           <<Declaration("display", Length(10, Px)), Declaration("width", Length(20, Px))>>),
      Rule(<<SimpleSelector(None, None, <<>>)>>,
           <<Declaration("display", Keyword("none")), Declaration("display", Keyword("inline"))>>),
      Rule(<<SimpleSelector(Some("div"), Some("x"), <<>>)>>,
           <<Declaration("width", Length(30, Px))>>) }

StyleSheets == { [rules |-> rs] : rs \in SeqsUpTo(StyleRules, MaxRules) }

StyleIdle ==
    /\ root_node = NoValue /\ stylesheet = NoValue
    /\ style_root = NoValue /\ style_pc = "idle"

CssIdle ==
    /\ css_input = <<>> /\ css_pos = 0 /\ css_rules = <<>>
    /\ css_pc = "idle" /\ css_panic = ""

LayIdle ==
    /\ lay_styled = NoValue /\ layout_root = NoValue
    /\ display_list = <<>> /\ lay_pc = "idle"

PaintIdle == paint_bounds = NoValue /\ canvas = NoValue /\ paint_next = 0

PdfIdle ==
    /\ pdf_out = <<>> /\ pdf_offsets = <<>> /\ pdf_xref_at = 0 /\ pdf_next = 0
    /\ pdf_pc = "idle" /\ pdf_result = "none"

HtmlIdle ==
    /\ html_tokens = <<>> /\ html_input = <<>> /\ html_pos = 0 /\ html_nodes = <<>>
    /\ html_root = NoValue /\ html_pc = "idle"

InitStyle ==
    /\ root_node \in StyleDoms
    /\ stylesheet \in StyleSheets
    /\ style_root = NoValue
    /\ style_pc = "start"
    /\ CssIdle /\ LayIdle /\ PaintIdle /\ PdfIdle /\ HtmlIdle

\* main.rs: let style_root = style::style_tree(&root_node, &stylesheet);
StyleTree ==
    /\ style_pc = "start"
    /\ style_root' = style_tree(root_node, stylesheet)
    /\ style_pc' = IF style_root' = NoValue THEN "panic" ELSE "styled"
    /\ UNCHANGED <<root_node, stylesheet>>
    /\ UNCHANGED cssVars /\ UNCHANGED layVars /\ UNCHANGED paintVars
    /\ UNCHANGED pdfVars /\ UNCHANGED htmlVars

NextStyle == StyleTree

SpecStyle == InitStyle /\ [][NextStyle]_vars

----------------------------------------------------------------------------
(* The CSS parser as a state machine: css::parse runs Parser::parse_rules, *)
(* one step of the model per iteration of its loop.                        *)

MaxCssRules == 2    \* rule fragments per CSS source

\* The rule fragments the sources are made of:
\*   a { w: 1px; }          a pixel length
\*   \n.c, #i{w:2PX;}       an upper-case unit, two selectors
\*   a{w:1em;}              an em length
\*   a{w:1rem;}             a rem length
\*   a.c{w:3%;}             a percentage
\*   #i{c:#ff0000;}         a colour
\*   *{d:block;}            a keyword
\*   a{w:1px;h:2pt;}        a good declaration, then an unknown unit
\*   a{}                    no declarations
\*   a{w:10;}               a number with no unit
\*   a{w:1.5.2px;}          a malformed number
\*   a{s:é;}                a two-byte character
\*   a{w:1px                input ends inside the block
\*   a b{}                  a selector list with no comma
\*   a{c:"hi";w:1px;}       a double-quoted string
\*   b{d:none; w:4px;}      two declarations
\*   a{w:1px}               a declaration with no `;`
\*   a{w 1px;}              a declaration with no `:`
\*   a,                     input ends inside the selector list
StringRule ==
    <<"a", "{", "c", ":", "\"", "h", "i", "\"", ";", "w", ":", "1", "p", "x", ";", "}">>

CssFragments ==
    { <<"a", " ", "{", " ", "w", ":", " ", "1", "p", "x", ";", " ", "}">>,
      <<"\n", ".", "c", ",", " ", "#", "i", "{", "w", ":", "2", "P", "X", ";", "}">>,
      <<"a", "{", "w", ":", "1", "e", "m", ";", "}">>,
      <<"a", "{", "w", ":", "1", "r", "e", "m", ";", "}">>,
      <<"a", ".", "c", "{", "w", ":", "3", "%", ";", "}">>,
      <<"#", "i", "{", "c", ":", "#", "f", "f", "0", "0", "0", "0", ";", "}">>,
      <<"*", "{", "d", ":", "b", "l", "o", "c", "k", ";", "}">>,
      <<"a", "{", "w", ":", "1", "p", "x", ";", "h", ":", "2", "p", "t", ";", "}">>,
      <<"a", "{", "}", " ">>,
      <<"a", "{", "w", ":", "1", "0", ";", "}">>,
      <<"a", "{", "w", ":", "1", ".", "5", ".", "2", "p", "x", ";", "}">>,
      <<"a", "{", "s", ":", "é", Cont, ";", "}">>,
      <<"a", "{", "w", ":", "1", "p", "x">>,
      <<"a", " ", "b", "{", "}">>,
      StringRule,
      <<"b", "{", "d", ":", "n", "o", "n", "e", ";", " ", "w", ":", "4", "p", "x", ";", "}">>,
      <<"a", "{", "w", ":", "1", "p", "x", "}">>,
      <<"a", "{", "w", " ", "1", "p", "x", ";", "}">>,
      <<"a", ",", " ">> }

RECURSIVE Concat(_)
Concat(ss) == IF ss = <<>> THEN <<>> ELSE Head(ss) \o Concat(Tail(ss))

CssSources == { Concat(fs) : fs \in SeqsUpTo(CssFragments, MaxCssRules) }

\* css::parse: Parser { pos: 0, input: source }
InitCss ==
    /\ css_input \in CssSources
    /\ css_pos = 0
    /\ css_rules = <<>>
    /\ css_pc = "parsing"
    /\ css_panic = ""
    /\ StyleIdle /\ LayIdle /\ PaintIdle /\ PdfIdle /\ HtmlIdle

\* An iteration of the loop of parse_rules that pushes a rule.
CssParseRule ==
    /\ css_pc = "parsing"
    /\ \E r \in {parse_rules_iteration(css_input, css_pos)} :
          /\ r.ok
          /\ r.v # NoValue
          /\ css_rules' = Append(css_rules, r.v)
          /\ css_pos' = r.pos
    /\ UNCHANGED <<css_input, css_pc, css_panic>>
    /\ UNCHANGED styleVars /\ UNCHANGED layVars /\ UNCHANGED paintVars
    /\ UNCHANGED pdfVars /\ UNCHANGED htmlVars

\* The iteration that finds the end of the input: parse_rules returns and
\* css::parse returns Stylesheet { rules }.
CssParseDone ==
    /\ css_pc = "parsing"
    /\ \E r \in {parse_rules_iteration(css_input, css_pos)} :
          /\ r.ok
          /\ r.v = NoValue
          /\ css_pos' = r.pos
    /\ css_pc' = "done"
    /\ UNCHANGED <<css_input, css_rules, css_panic>>
    /\ UNCHANGED styleVars /\ UNCHANGED layVars /\ UNCHANGED paintVars
    /\ UNCHANGED pdfVars /\ UNCHANGED htmlVars

\* An iteration that panics: css::parse returns nothing.
CssParsePanic ==
    /\ css_pc = "parsing"
    /\ \E r \in {parse_rules_iteration(css_input, css_pos)} :
          /\ ~r.ok
          /\ css_panic' = r.msg
    /\ css_pc' = "panic"
    /\ UNCHANGED <<css_input, css_pos, css_rules>>
    /\ UNCHANGED styleVars /\ UNCHANGED layVars /\ UNCHANGED paintVars
    /\ UNCHANGED pdfVars /\ UNCHANGED htmlVars

NextCss == CssParseRule \/ CssParseDone \/ CssParsePanic

SpecCss == InitCss /\ [][NextCss]_vars

----------------------------------------------------------------------------
(* Properties of the CSS parser.                                           *)

\* The end of the run of `kind` characters that starts at index j.
RECURSIVE RunEnd(_, _, _)
RunEnd(inp, j, kind) ==
    IF j > Len(inp) \/ ~Test(kind, inp[j]) THEN j ELSE RunEnd(inp, j + 1, kind)

\* The indices at which a numeric value starts: a digit that follows a
\* colon, with only whitespace between.
NumericValueStarts(inp) ==
    {j \in 1..Len(inp) :
        /\ inp[j] \in DigitChars
        /\ \E i \in 1..(j - 1) :
              inp[i] = ":" /\ \A m \in (i + 1)..(j - 1) : is_whitespace(inp[m])}

\* The unit written after the number that starts at index j.
UnitAfter(inp, j) ==
    LET k == RunEnd(inp, j, "float")
    IN  SubSeq(inp, k, RunEnd(inp, k, "identifier") - 1)

RecognizedUnits == {"px"}

HasUnrecognizedUnit(inp) ==
    \E j \in NumericValueStarts(inp) :
        /\ UnitAfter(inp, j) # <<>>
        /\ Str(to_ascii_lowercase(UnitAfter(inp, j))) \notin RecognizedUnits

\* C5: a numeric value followed by a unit the parser does not recognize is
\* fatal: css::parse never returns a Stylesheet for such a source (no
\* default unit or value is substituted, no declaration is skipped).
C5_UnknownUnitIsFatal ==
    HasUnrecognizedUnit(css_input) => css_pc \in {"parsing", "panic"}

\* C5 witness: the parser has pushed a rule and then panicked on an
\* unrecognized unit.
C5_Witness ==
    /\ HasUnrecognizedUnit(css_input)
    /\ css_pc = "panic"
    /\ css_panic = "unrecognized unit"
    /\ Len(css_rules) >= 1

----------------------------------------------------------------------------
(* Properties of the style stage.                                          *)

\* Every StyledNode of a styled tree.
RECURSIVE StyledNodes(_)
StyledNodes(sn) ==
    {sn} \cup UNION {StyledNodes(sn.children[i]) : i \in 1..Len(sn.children)}

\* Every node of a DOM tree.
RECURSIVE DomNodes(_)
DomNodes(n) == {n} \cup UNION {DomNodes(n.children[i]) : i \in 1..Len(n.children)}

IsElement(sn) == sn.node.node_type.kind = "Element"

StyleProps == {"display", "width"}

Declares(rule, p) == \E i \in 1..Len(rule.declarations) : rule.declarations[i].name = p

\* The value of the last declaration of p in the rule.
LastValue(rule, p) ==
    LET at == {i \in 1..Len(rule.declarations) : rule.declarations[i].name = p}
    IN  rule.declarations[CHOOSE i \in at : \A j \in at : j <= i].value

RuleMatches(e, rule) == \E i \in 1..Len(rule.selectors) : matches(e, rule.selectors[i])

\* The highest specificity among the selectors of the rule that match e.
BestSpecificity(e, rule) ==
    LET ss == {specificity(rule.selectors[i]) :
                 i \in {k \in 1..Len(rule.selectors) : matches(e, rule.selectors[k])}}
    IN  CHOOSE s \in ss : \A t \in ss : cmp(t, s) <= 0

\* The rules of the stylesheet that match e and declare p.
Deciders(e, p) ==
    {i \in 1..Len(stylesheet.rules) :
        RuleMatches(e, stylesheet.rules[i]) /\ Declares(stylesheet.rules[i], p)}

\* C1: style_tree is total: for every DOM tree (Comment and
\* ProcessingInstruction nodes included) and every stylesheet it returns a
\* StyledNode tree and never aborts.
C1_StyleTreeTotal == style_pc # "panic"

\* C2: when several matching rules declare the same property, the element's
\* mapping holds the value from a matching rule of highest specificity,
\* whatever the order of the rules in the stylesheet.
C2_HighestSpecificityWins ==
    style_pc = "styled" =>
        \A sn \in StyledNodes(style_root) : IsElement(sn) =>
            \A p \in StyleProps :
                LET e == sn.node.node_type
                    M == Deciders(e, p)
                IN  M # {} =>
                      /\ p \in DOMAIN sn.specified_values
                      /\ \E i \in M :
                           /\ sn.specified_values[p] = LastValue(stylesheet.rules[i], p)
                           /\ \A j \in M :
                                cmp(BestSpecificity(e, stylesheet.rules[j]),
                                    BestSpecificity(e, stylesheet.rules[i])) <= 0

\* C2 witness: an element matched by two rules that give one property
\* different values, the more specific rule standing first in the
\* stylesheet, and the element holds the more specific rule's value.
C2_Witness ==
    /\ style_pc = "styled"
    /\ \E sn \in StyledNodes(style_root) : IsElement(sn) /\
         \E p \in StyleProps :
            LET e == sn.node.node_type
                M == Deciders(e, p)
            IN  \E i, j \in M :
                   /\ i < j
                   /\ cmp(BestSpecificity(e, stylesheet.rules[i]),
                          BestSpecificity(e, stylesheet.rules[j])) > 0
                   /\ LastValue(stylesheet.rules[i], p) # LastValue(stylesheet.rules[j], p)
                   /\ sn.specified_values[p] = LastValue(stylesheet.rules[i], p)

\* The StyledNodes of what style_tree returned: none when it returned nothing.
StyledNodesOf(sr) == IF sr = NoValue THEN {} ELSE StyledNodes(sr)

\* C3: once style_tree has run, every non-element node of the tree (Text,
\* Comment, ProcessingInstruction) is in the styled tree and carries an empty
\* property mapping, whatever the stylesheet contains.
C3_NonElementsUnstyled ==
    style_pc # "start" =>
        \A n \in DomNodes(root_node) : n.node_type.kind # "Element" =>
            \E sn \in StyledNodesOf(style_root) :
                sn.node = n /\ DOMAIN sn.specified_values = {}

\* C4: display is Block exactly for the keyword `block`, None exactly for
\* the keyword `none`, and Inline in every other case.
C4_DisplayMapping ==
    style_pc = "styled" =>
        \A sn \in StyledNodes(style_root) :
            /\ display(sn) = "Block" <=> value(sn, "display") = Some(Keyword("block"))
            /\ display(sn) = "None" <=> value(sn, "display") = Some(Keyword("none"))
            /\ display(sn) \in {"Block", "None", "Inline"}

\* C4 witness: one tree with a node whose display is not a keyword, a node
\* whose display is a keyword other than block and none, and a node with no
\* display at all, all three Inline.
C4_Witness ==
    /\ style_pc = "styled"
    /\ \E sn \in StyledNodes(style_root) :
          /\ value(sn, "display").some
          /\ value(sn, "display").v.type # "Keyword"
          /\ display(sn) = "Inline"
    /\ \E sn \in StyledNodes(style_root) :
          /\ value(sn, "display") = Some(Keyword("flex"))
          /\ display(sn) = "Inline"
    /\ \E sn \in StyledNodes(style_root) :
          ~value(sn, "display").some /\ display(sn) = "Inline"

----------------------------------------------------------------------------
(* layout: the layout engine that main.rs calls as layout::layout_tree.    *)
(* Section 4.1 of the specification: tree construction, width resolution,  *)
(* positioning, recursion into the children, height resolution.            *)

\* Rect and EdgeSizes; Dimensions is a content Rect with three EdgeSizes.
Rect(x, y, width, height) == [x |-> x, y |-> y, width |-> width, height |-> height]
EdgeSizes(left, right, top, bottom) ==
    [left |-> left, right |-> right, top |-> top, bottom |-> bottom]
Dimensions(content, padding, border, margin) ==
    [content |-> content, padding |-> padding, border |-> border, margin |-> margin]

\* Default::default() for Dimensions: everything zero.
DefaultDimensions ==
    Dimensions(Rect(0, 0, 0, 0), EdgeSizes(0, 0, 0, 0), EdgeSizes(0, 0, 0, 0),
               EdgeSizes(0, 0, 0, 0))

\* A variant that grows the rectangle downwards only by the bottom edge.
expanded_by_bottom_only(rect, edge) ==
    Rect(rect.x - edge.left, rect.y - edge.top,
         rect.width + edge.left + edge.right, rect.height + edge.bottom)

\* A rectangle expanded by an edge thickness on all four sides.
expanded_by(rect, edge) ==
    Rect(rect.x - edge.left, rect.y - edge.top,
         rect.width + edge.left + edge.right, rect.height + edge.top + edge.bottom)

\* The box levels: content -> padding -> border -> margin.
padding_box(d) == expanded_by(d.content, d.padding)
border_box(d) == expanded_by(padding_box(d), d.border)
margin_box(d) == expanded_by(border_box(d), d.margin)

\* BoxType.  A Block or Inline box wraps a StyledNode: `path` is the place of
\* that node in the styled tree (the reference the box holds).
BlockNode(style_node, path) == [kind |-> "BlockNode", node |-> style_node, path |-> path]
InlineNode(style_node, path) == [kind |-> "InlineNode", node |-> style_node, path |-> path]
AnonymousBlock == [kind |-> "AnonymousBlock"]

\* A LayoutBox with default dimensions.
LayoutBox(box_type, children) ==
    [dimensions |-> DefaultDimensions, box_type |-> box_type, children |-> children]

\* Every maximal run of Inline boxes goes into one Anonymous block box.
RECURSIVE wrap_inline_runs(_, _)
wrap_inline_runs(done, boxes) ==
    IF boxes = <<>> THEN done
    ELSE IF Head(boxes).box_type.kind = "BlockNode"
    THEN wrap_inline_runs(Append(done, Head(boxes)), Tail(boxes))
    ELSE IF done # <<>> /\ Last(done).box_type.kind = "AnonymousBlock"
    THEN wrap_inline_runs(
             Append(Front(done),
                    [Last(done) EXCEPT !.children = Append(@, Head(boxes))]),
             Tail(boxes))
    ELSE wrap_inline_runs(Append(done, LayoutBox(AnonymousBlock, <<Head(boxes)>>)),
                          Tail(boxes))

\* The children of a Block box: wrapped when Block and Inline children mix,
\* as they are otherwise.
block_children(boxes) ==
    IF /\ \E i \in 1..Len(boxes) : boxes[i].box_type.kind = "BlockNode"
       /\ \E i \in 1..Len(boxes) : boxes[i].box_type.kind = "InlineNode"
    THEN wrap_inline_runs(<<>>, boxes)
    ELSE boxes

\* Tree construction: the LayoutBox tree of a styled node, or NoValue where
\* the node's display is none (the node and its subtree are omitted).
RECURSIVE build_layout_tree(_, _)
build_layout_tree(style_node, path) ==
    LET built == [i \in 1..Len(style_node.children) |->
                     build_layout_tree(style_node.children[i], Append(path, i))]
        boxes == SelectSeq(built, LAMBDA b : b # NoValue)
    IN  CASE display(style_node) = "None" -> NoValue
          [] display(style_node) = "Block" ->
                LayoutBox(BlockNode(style_node, path), block_children(boxes))
          [] OTHER -> LayoutBox(InlineNode(style_node, path), boxes)

auto == Keyword("auto")
zero == Length(0, Px)

Max(a, b) == IF a >= b THEN a ELSE b

\* A variant that adjusts the right margin only when there is room to give:
\* when the components exceed the containing width it is left as specified.
adjusted_margin_right_underflow_only(margin_right_px, excess) ==
    margin_right_px + Max(excess, 0)

\* Neither margin is auto: the excess is added to margin-right regardless,
\* also when it is negative (the overconstrained case).
adjusted_margin_right(margin_right_px, excess) == margin_right_px + excess

\* Width resolution.  Unset width and margins are auto, unset borders and
\* paddings are zero.  The excess is the containing width less the seven
\* components (auto counts as zero).  With an auto width the auto margins are
\* zero and the width takes the excess, floored at zero.  Otherwise the
\* excess goes to margin-right when neither margin is auto, to the margin that
\* alone is auto, or in halves to both; when the components exceed the
\* containing width (overconstrained) auto margins are zero and the right
\* margin is adjusted.
calculate_block_width(style, containing_block) ==
    LET width == lookup(style, "width", "width", auto)
        margin_left == lookup(style, "margin-left", "margin", auto)
        margin_right == lookup(style, "margin-right", "margin", auto)
        border_left == lookup(style, "border-left-width", "border-width", zero)
        border_right == lookup(style, "border-right-width", "border-width", zero)
        padding_left == lookup(style, "padding-left", "padding", zero)
        padding_right == lookup(style, "padding-right", "padding", zero)
        total == to_px(margin_left) + to_px(border_left) + to_px(padding_left)
                 + to_px(width)
                 + to_px(padding_right) + to_px(border_right) + to_px(margin_right)
        excess == containing_block.content.width - total
        over == width # auto /\ excess < 0
        ml_auto == margin_left = auto /\ ~over
        mr_auto == margin_right = auto /\ ~over
        resolved ==
            CASE width = auto -> [w |-> Max(excess, 0), ml |-> to_px(margin_left),
                                  mr |-> to_px(margin_right)]
              [] ~ml_auto /\ ~mr_auto ->
                    [w |-> to_px(width), ml |-> to_px(margin_left),
                     mr |-> adjusted_margin_right(to_px(margin_right), excess)]
              [] ~ml_auto /\ mr_auto -> [w |-> to_px(width), ml |-> to_px(margin_left),
                                         mr |-> excess]
              [] ml_auto /\ ~mr_auto -> [w |-> to_px(width), ml |-> excess,
                                         mr |-> to_px(margin_right)]
              [] OTHER -> [w |-> to_px(width), ml |-> excess \div 2, mr |-> excess \div 2]
    IN  Dimensions(Rect(0, 0, resolved.w, 0),
                   EdgeSizes(to_px(padding_left), to_px(padding_right), 0, 0),
                   EdgeSizes(to_px(border_left), to_px(border_right), 0, 0),
                   EdgeSizes(resolved.ml, resolved.mr, 0, 0))

\* Positioning: the vertical edges (zero when unset, no auto resolution) and
\* the place of the content box; cursor_y is the containing block's cursor.
calculate_block_position(style, d, containing_block, cursor_y) ==
    LET margin == [d.margin EXCEPT
                     !.top = to_px(lookup(style, "margin-top", "margin", zero)),
                     !.bottom = to_px(lookup(style, "margin-bottom", "margin", zero))]
        border == [d.border EXCEPT
                     !.top = to_px(lookup(style, "border-top-width", "border-width", zero)),
                     !.bottom = to_px(lookup(style, "border-bottom-width", "border-width", zero))]
        padding == [d.padding EXCEPT
                     !.top = to_px(lookup(style, "padding-top", "padding", zero)),
                     !.bottom = to_px(lookup(style, "padding-bottom", "padding", zero))]
    IN  Dimensions(Rect(containing_block.content.x + margin.left + border.left + padding.left,
                        cursor_y + margin.top + border.top + padding.top,
                        d.content.width, 0),
                   padding, border, margin)

\* A variant that always sums the children, whatever `height` says.
calculate_block_height_children_only(style, d, children_height) ==
    [d EXCEPT !.content.height = children_height]

\* Height resolution: an explicit length is used verbatim, otherwise the
\* height is the sum of the margin-box heights of the direct children.
calculate_block_height(style, d, children_height) ==
    LET height == value(style, "height")
    IN  IF height.some /\ height.v.type = "Length"
        THEN [d EXCEPT !.content.height = to_px(height.v)]
        ELSE [d EXCEPT !.content.height = children_height]

\* The sum of the margin-box heights of laid-out boxes.
RECURSIVE children_height(_)
children_height(boxes) ==
    IF boxes = <<>> THEN 0
    ELSE margin_box(Head(boxes).dimensions).height + children_height(Tail(boxes))

\* Lay a box out in its containing block, with the cursor at cursor_y.  A
\* Block box runs the block algorithm; an Inline or Anonymous box is a stub:
\* its width is its container's width, its height the sum of its children's.
\* The children are laid out against the box's content box, one under the
\* other: the cursor advances by each child's margin-box height.
RECURSIVE layout(_, _, _)
RECURSIVE layout_children(_, _, _)
layout(box, containing_block, cursor_y) ==
    LET block == box.box_type.kind = "BlockNode"
        placed ==
            IF block
            THEN calculate_block_position(
                     box.box_type.node,
                     calculate_block_width(box.box_type.node, containing_block),
                     containing_block, cursor_y)
            ELSE [DefaultDimensions EXCEPT
                     !.content = Rect(containing_block.content.x, cursor_y,
                                      containing_block.content.width, 0)]
        children == layout_children(box.children, placed, placed.content.y)
        d == IF block
             THEN calculate_block_height(box.box_type.node, placed, children_height(children))
             ELSE [placed EXCEPT !.content.height = children_height(children)]
    IN  [dimensions |-> d, box_type |-> box.box_type, children |-> children]

layout_children(boxes, containing_block, cursor_y) ==
    IF boxes = <<>> THEN <<>>
    ELSE LET child == layout(Head(boxes), containing_block, cursor_y)
         IN  <<child>> \o layout_children(Tail(boxes), containing_block,
                             cursor_y + margin_box(child.dimensions).height)

\* layout_tree: build the tree of the root node and lay it out in the
\* initial containing block, the cursor at the top of its content box.  No
\* tree (NoValue) when the root's display is none.
layout_tree(node, containing_block) ==
    IF build_layout_tree(node, <<>>) = NoValue THEN NoValue
    ELSE layout(build_layout_tree(node, <<>>), containing_block,
                containing_block.content.y)

----------------------------------------------------------------------------
(* painting: the display list builder, section 4.2 of the specification.   *)

\* DisplayCommand::SolidRectangle(color, rect).  `box` (the place in the
\* layout tree of the box the command was emitted for) and `part` record
\* where the command comes from.
SolidRectangle(color, rect, box, part) ==
    [color |-> color, rect |-> rect, box |-> box, part |-> part]

\* The colour a box specifies under `name`: None for an Anonymous box, which
\* has no property mapping, and where the value is absent or not a colour.
get_color(layout_box, name) ==
    IF layout_box.box_type.kind = "AnonymousBlock" THEN None
    ELSE IF value(layout_box.box_type.node, name).some
            /\ value(layout_box.box_type.node, name).v.type = "ColorValue"
    THEN value(layout_box.box_type.node, name)
    ELSE None

\* The background: one rectangle over the padding box, if there is a colour.
render_background(layout_box, at) ==
    IF get_color(layout_box, "background-color").some
    THEN <<SolidRectangle(get_color(layout_box, "background-color").v,
                          padding_box(layout_box.dimensions), at, "background")>>
    ELSE <<>>

\* One border edge: a rectangle, if the edge has a width and a colour.
render_border(layout_box, at, name, width, rect) ==
    IF width # 0 /\ get_color(layout_box, name).some
    THEN <<SolidRectangle(get_color(layout_box, name).v, rect, at, name)>>
    ELSE <<>>

\* The borders: top, right, bottom, left, each as wide as that one edge.
render_borders(layout_box, at) ==
    LET d == layout_box.dimensions
        bb == border_box(layout_box.dimensions)
    IN  render_border(layout_box, at, "border-top-color", d.border.top,
                      Rect(bb.x, bb.y, bb.width, d.border.top))
        \o render_border(layout_box, at, "border-right-color", d.border.right,
                      Rect(bb.x + bb.width - d.border.right, bb.y, d.border.right, bb.height))
        \o render_border(layout_box, at, "border-bottom-color", d.border.bottom,
                      Rect(bb.x, bb.y + bb.height - d.border.bottom, bb.width, d.border.bottom))
        \o render_border(layout_box, at, "border-left-color", d.border.left,
                      Rect(bb.x, bb.y, d.border.left, bb.height))

\* A variant that emits the children's commands before the box's own.
RECURSIVE render_layout_box_children_first(_, _)
RECURSIVE render_children_first(_, _, _)
render_layout_box_children_first(layout_box, at) ==
    render_children_first(layout_box.children, at, 1)
    \o render_background(layout_box, at) \o render_borders(layout_box, at)

render_children_first(boxes, at, i) ==
    IF i > Len(boxes) THEN <<>>
    ELSE render_layout_box_children_first(boxes[i], Append(at, i))
         \o render_children_first(boxes, at, i + 1)

\* The commands of a box, in order: its background, its borders, then its
\* children's commands, child by child.
RECURSIVE render_layout_box(_, _)
RECURSIVE render_children(_, _, _)
render_layout_box(layout_box, at) ==
    render_background(layout_box, at) \o render_borders(layout_box, at)
    \o render_children(layout_box.children, at, 1)

render_children(boxes, at, i) ==
    IF i > Len(boxes) THEN <<>>
    ELSE render_layout_box(boxes[i], Append(at, i)) \o render_children(boxes, at, i + 1)

\* build_display_list
build_display_list(layout_root_box) == render_layout_box(layout_root_box, <<>>)

----------------------------------------------------------------------------
(* The layout stage as a state machine: main.rs hands the styled tree and  *)
(* the viewport to layout::layout_tree, and the layout tree to             *)
(* painting::paint, which builds the display list.                         *)

ViewportWidth == 800
ViewportHeight == 600

\* main.rs: the hard-coded viewport.
Viewport ==
    [DefaultDimensions EXCEPT !.content.width = ViewportWidth,
                              !.content.height = ViewportHeight]

MaxKids == 2    \* children of the root in the layout inputs

Red == ColorValue(255, 0, 0, 255)
Green == ColorValue(0, 255, 0, 255)
Blue == ColorValue(0, 0, 255, 255)

\* A StyledNode as style_tree builds it for an element whose matching rules
\* hold the declarations `decls`, and for a text node.
styled(decls, kids) ==
    [node |-> elem("div", NoAttrs, [i \in 1..Len(kids) |-> kids[i].node]),
     specified_values |-> insert_declarations(EmptyMap, decls),
     children |-> kids]
styled_text == [node |-> text("hi"), specified_values |-> EmptyMap, children |-> <<>>]

\* The declarations of the elements in the layout inputs.
LayoutStyles ==
    [ scenario |-> <<Declaration("display", Keyword("block")),
                     Declaration("width", Length(100, Px)),
                     Declaration("height", Length(50, Px)),
                     Declaration("margin", Length(10, Px)),
                     Declaration("background-color", Red)>>,
      plain |-> <<Declaration("display", Keyword("block")),
                  Declaration("background-color", Blue)>>,
      framed |-> <<Declaration("display", Keyword("block")),
                   Declaration("width", Length(200, Px)),
                   Declaration("margin-left", Length(20, Px)),
                   Declaration("margin-right", Length(30, Px)),
                   Declaration("margin-top", Length(6, Px)),
                   Declaration("margin-bottom", Length(8, Px)),
                   Declaration("padding", Length(4, Px)),
                   Declaration("border-width", Length(2, Px)),
                   Declaration("border-top-color", Green),
                   Declaration("border-left-color", Blue),
                   Declaration("background-color", Red)>>,
      wide |-> <<Declaration("display", Keyword("block")),
                 Declaration("width", Length(900, Px)),
                 Declaration("height", Keyword("auto")),
                 Declaration("margin-left", Length(10, Px)),
                 Declaration("margin-right", Length(10, Px)),
                 Declaration("margin-bottom", Length(2, Px))>>,
      centered |-> <<Declaration("display", Keyword("block")),
                     Declaration("width", Length(100, Px)),
                     Declaration("height", Length(10, Px)),
                     Declaration("border-width", Length(2, Px)),
                     Declaration("border-bottom-color", Blue)>>,
      left_auto |-> <<Declaration("display", Keyword("block")),
                      Declaration("width", Length(100, Px)),
                      Declaration("margin-left", Keyword("auto")),
                      Declaration("margin-right", Length(10, Px))>>,
      right_auto |-> <<Declaration("display", Keyword("block")),
                       Declaration("width", Length(100, Px)),
                       Declaration("margin-left", Length(10, Px)),
                       Declaration("height", Length(4, Px))>>,
      hidden |-> <<Declaration("display", Keyword("none")),
                   Declaration("width", Length(100, Px)),
                   Declaration("height", Length(50, Px)),
                   Declaration("background-color", Green)>>,
      inline |-> <<Declaration("display", Keyword("inline")),
                   Declaration("background-color", Green)>>,
      unset |-> <<Declaration("height", Length(20, Px)),
                  Declaration("background-color", Blue)>> ]

\* The subtrees under the root in the layout inputs.
LayoutKids ==
    { styled(LayoutStyles.scenario, <<>>),
      styled(LayoutStyles.framed, <<>>),
      styled(LayoutStyles.wide, <<>>),
      styled(LayoutStyles.centered, <<>>),
      styled(LayoutStyles.inline, <<>>),
      styled(LayoutStyles.unset, <<styled_text>>),
      styled(LayoutStyles.hidden, <<styled(LayoutStyles.scenario, <<>>)>>),
      styled(LayoutStyles.plain, <<styled(LayoutStyles.left_auto, <<>>),
                                   styled(LayoutStyles.right_auto, <<>>)>>),
      styled(LayoutStyles.plain, <<styled(LayoutStyles.inline, <<>>),
                                   styled(LayoutStyles.scenario, <<>>),
                                   styled_text,
                                   styled(LayoutStyles.unset, <<>>)>>),
      styled(LayoutStyles.scenario, <<styled(LayoutStyles.framed, <<>>)>>),
      styled(LayoutStyles.inline, <<styled(LayoutStyles.framed, <<>>)>>),
      styled(LayoutStyles.plain,
             <<styled(LayoutStyles.hidden,
                      <<styled(LayoutStyles.plain,
                               <<styled(LayoutStyles.scenario, <<>>)>>)>>)>>),
      styled(LayoutStyles.framed, <<styled(LayoutStyles.wide, <<>>),
                                    styled(LayoutStyles.centered, <<>>)>>) }

\* The styles of the root in the layout inputs.
LayoutRoots ==
    { LayoutStyles.plain, LayoutStyles.framed, LayoutStyles.scenario,
      LayoutStyles.hidden, LayoutStyles.inline }

LayoutInputs ==
    { styled(decls, kids) : decls \in LayoutRoots, kids \in SeqsUpTo(LayoutKids, MaxKids) }

InitLayout ==
    /\ lay_styled \in LayoutInputs
    /\ layout_root = NoValue
    /\ display_list = <<>>
    /\ lay_pc = "start"
    /\ StyleIdle /\ CssIdle /\ PaintIdle /\ PdfIdle /\ HtmlIdle

\* main.rs: let layout_root = layout::layout_tree(&style_root, viewport);
LayoutTree ==
    /\ lay_pc = "start"
    /\ layout_root' = layout_tree(lay_styled, Viewport)
    /\ lay_pc' = IF layout_root' = NoValue THEN "no_tree" ELSE "laid_out"
    /\ UNCHANGED <<lay_styled, display_list>>
    /\ UNCHANGED styleVars /\ UNCHANGED cssVars /\ UNCHANGED paintVars
    /\ UNCHANGED pdfVars /\ UNCHANGED htmlVars

\* main.rs: painting::paint(&layout_root, viewport.content) builds the
\* display list of the layout tree.
BuildDisplayList ==
    /\ lay_pc = "laid_out"
    /\ display_list' = build_display_list(layout_root)
    /\ lay_pc' = "listed"
    /\ UNCHANGED <<lay_styled, layout_root>>
    /\ UNCHANGED styleVars /\ UNCHANGED cssVars /\ UNCHANGED paintVars
    /\ UNCHANGED pdfVars /\ UNCHANGED htmlVars

NextLayout == LayoutTree \/ BuildDisplayList

SpecLayout == InitLayout /\ [][NextLayout]_vars

----------------------------------------------------------------------------
(* Properties of the layout stage.                                         *)

\* The places of the boxes of a layout tree: sequences of child indices.
RECURSIVE LayoutPaths(_)
LayoutPaths(box) ==
    {<<>>} \cup UNION {{<<i>> \o p : p \in LayoutPaths(box.children[i])} :
                         i \in 1..Len(box.children)}

RECURSIVE BoxAt(_, _)
BoxAt(box, p) == IF p = <<>> THEN box ELSE BoxAt(box.children[Head(p)], Tail(p))

\* The places of the boxes of the layout tree built, none when there is none.
Boxes == IF layout_root = NoValue THEN {} ELSE LayoutPaths(layout_root)

BlockBoxes == {p \in Boxes : BoxAt(layout_root, p).box_type.kind = "BlockNode"}

\* The width of the containing block of the box at p: its parent's content
\* width, the viewport's for the root.
ContainingWidth(p) ==
    IF p = <<>> THEN ViewportWidth
    ELSE BoxAt(layout_root, Front(p)).dimensions.content.width

\* The value the node specifies for `name`, or else for the shorthand.
Specified(style, name, shorthand) ==
    IF name \in DOMAIN style.specified_values THEN Some(style.specified_values[name])
    ELSE IF shorthand \in DOMAIN style.specified_values
    THEN Some(style.specified_values[shorthand])
    ELSE None

NotAuto(style, name, shorthand) ==
    Specified(style, name, shorthand).some
    /\ Specified(style, name, shorthand).v # Keyword("auto")

\* Width and both horizontal margins are specified and not auto.
FullySpecifiedWidth(style) ==
    /\ NotAuto(style, "width", "width")
    /\ NotAuto(style, "margin-left", "margin")
    /\ NotAuto(style, "margin-right", "margin")

HorizontalSum(d) ==
    d.margin.left + d.border.left + d.padding.left + d.content.width
    + d.padding.right + d.border.right + d.margin.right

\* C6: for every Block box whose width and two horizontal margins are all
\* not auto, the seven resolved horizontal components add up to the width of
\* the containing block.
C6_HorizontalSumIsContainingWidth ==
    lay_pc \in {"laid_out", "listed"} =>
        \A p \in BlockBoxes :
            FullySpecifiedWidth(BoxAt(layout_root, p).box_type.node) =>
                HorizontalSum(BoxAt(layout_root, p).dimensions) = ContainingWidth(p)

\* C6 witness: a tree with such a box narrower than its containing block and
\* such a box wider than it, whose right margin has become negative.
C6_Witness ==
    /\ lay_pc = "laid_out"
    /\ \E p \in BlockBoxes :
          /\ FullySpecifiedWidth(BoxAt(layout_root, p).box_type.node)
          /\ BoxAt(layout_root, p).dimensions.margin.right < 0
          /\ BoxAt(layout_root, p).dimensions.content.width > ContainingWidth(p)
    /\ \E p \in BlockBoxes :
          /\ FullySpecifiedWidth(BoxAt(layout_root, p).box_type.node)
          /\ BoxAt(layout_root, p).dimensions.margin.right
               > Specified(BoxAt(layout_root, p).box_type.node, "margin-right", "margin").v.f

\* r is rectangle s grown by the edge thicknesses e on its four sides.
Nests(r, s, e) ==
    /\ r.x = s.x - e.left
    /\ r.y = s.y - e.top
    /\ r.width = s.width + e.left + e.right
    /\ r.height = s.height + e.top + e.bottom

\* C7: for every box of a layout tree the padding box is the content
\* rectangle expanded by the padding, the border box the padding box expanded
\* by the border, the margin box the border box expanded by the margin; so
\* marginBox.height = borderBox.height + margin-top + margin-bottom.
C7_BoxLevelsNest ==
    lay_pc \in {"laid_out", "listed"} =>
        \A p \in Boxes :
            LET d == BoxAt(layout_root, p).dimensions
            IN  /\ Nests(padding_box(d), d.content, d.padding)
                /\ Nests(border_box(d), padding_box(d), d.border)
                /\ Nests(margin_box(d), border_box(d), d.margin)
                /\ margin_box(d).height
                     = border_box(d).height + d.margin.top + d.margin.bottom
                /\ margin_box(d).height
                     = d.content.height + d.padding.top + d.padding.bottom
                       + d.border.top + d.border.bottom + d.margin.top + d.margin.bottom

\* C7 witness: a box with content, padding, border and margins that differ
\* between top and bottom.
C7_Witness ==
    /\ lay_pc = "laid_out"
    /\ \E p \in Boxes :
          LET d == BoxAt(layout_root, p).dimensions
          IN  /\ d.content.height > 0 /\ d.padding.top > 0 /\ d.border.top > 0
              /\ d.margin.top > 0 /\ d.margin.bottom > d.margin.top
              /\ margin_box(d).height > border_box(d).height
              /\ border_box(d).height > padding_box(d).height
              /\ padding_box(d).height > d.content.height

\* The places of the nodes of a styled tree.
RECURSIVE StyledPaths(_)
StyledPaths(sn) ==
    {<<>>} \cup UNION {{<<i>> \o p : p \in StyledPaths(sn.children[i])} :
                         i \in 1..Len(sn.children)}

RECURSIVE NodeAt(_, _)
NodeAt(sn, p) == IF p = <<>> THEN sn ELSE NodeAt(sn.children[Head(p)], Tail(p))

DisplayNone(sn) ==
    /\ "display" \in DOMAIN sn.specified_values
    /\ sn.specified_values["display"] = Keyword("none")

\* The node at p, or one of its ancestors, has display none.
InHiddenSubtree(p) ==
    \E k \in 0..Len(p) : DisplayNone(NodeAt(lay_styled, SubSeq(p, 1, k)))

\* The boxes of the layout tree that wrap the styled node at p.
BoxesOfNode(p) ==
    {b \in Boxes : /\ BoxAt(layout_root, b).box_type.kind # "AnonymousBlock"
                   /\ BoxAt(layout_root, b).box_type.path = p}

\* C8: a styled node whose display is none has no LayoutBox in the layout
\* tree, and neither has any node of its subtree, whatever its own display.
C8_DisplayNoneHasNoBox ==
    lay_pc \in {"no_tree", "laid_out", "listed"} =>
        \A p \in StyledPaths(lay_styled) : InHiddenSubtree(p) => BoxesOfNode(p) = {}

\* C8 witness: a layout tree was built from a styled tree in which a node
\* with display none has a child with display block, which has a child with
\* display block, and neither has a box; other nodes have boxes.
C8_Witness ==
    /\ lay_pc = "laid_out"
    /\ \E p \in StyledPaths(lay_styled) : \E k \in 1..(Len(p) - 2) :
          /\ DisplayNone(NodeAt(lay_styled, SubSeq(p, 1, k)))
          /\ display(NodeAt(lay_styled, SubSeq(p, 1, k + 1))) = "Block"
          /\ display(NodeAt(lay_styled, p)) = "Block"
          /\ BoxesOfNode(SubSeq(p, 1, k + 1)) = {}
          /\ BoxesOfNode(p) = {}
    /\ \E p \in StyledPaths(lay_styled) : p # <<>> /\ BoxesOfNode(p) # {}

\* The height of the margin box, from the content height and the edges.
MarginBoxHeight(d) ==
    d.content.height + d.padding.top + d.padding.bottom
    + d.border.top + d.border.bottom + d.margin.top + d.margin.bottom

\* C9: a Block box with an explicit length height has that content height,
\* whatever its children; with an auto height its content height is the sum
\* of the margin-box heights of its direct children, 0 when it has none.
C9_BlockHeight ==
    lay_pc \in {"laid_out", "listed"} =>
        \A p \in BlockBoxes :
            LET box == BoxAt(layout_root, p)
                style == box.box_type.node
                explicit == /\ "height" \in DOMAIN style.specified_values
                            /\ style.specified_values["height"].type = "Length"
            IN  /\ explicit =>
                      box.dimensions.content.height = style.specified_values["height"].f
                /\ ~explicit =>
                      box.dimensions.content.height
                        = SumSeq([i \in 1..Len(box.children) |->
                                     MarginBoxHeight(box.children[i].dimensions)])
                /\ (~explicit /\ box.children = <<>>) => box.dimensions.content.height = 0

\* C9 witness: one tree with a Block box of explicit height whose children
\* add up to another height, a Block box of auto height with two children
\* that have vertical margins, and a Block box of auto height with no child.
C9_Witness ==
    /\ lay_pc = "laid_out"
    /\ \E p \in BlockBoxes :
          LET box == BoxAt(layout_root, p)
          IN  /\ "height" \in DOMAIN box.box_type.node.specified_values
              /\ box.box_type.node.specified_values["height"].type = "Length"
              /\ box.children # <<>>
              /\ SumSeq([i \in 1..Len(box.children) |->
                            MarginBoxHeight(box.children[i].dimensions)])
                   \notin {0, box.dimensions.content.height}
    /\ \E p \in BlockBoxes :
          LET box == BoxAt(layout_root, p)
          IN  /\ "height" \notin DOMAIN box.box_type.node.specified_values
              /\ Len(box.children) = 2
              /\ \A i \in 1..2 : /\ box.children[i].dimensions.margin.top > 0
                                 /\ box.children[i].dimensions.content.height > 0
              /\ box.dimensions.content.height
                   > box.children[1].dimensions.content.height
                     + box.children[2].dimensions.content.height
    /\ \E p \in BlockBoxes :
          LET box == BoxAt(layout_root, p)
          IN  /\ "height" \notin DOMAIN box.box_type.node.specified_values
              /\ box.children = <<>>
              /\ box.dimensions.content.height = 0

\* a is the place of a proper ancestor of the box at b.
IsAncestor(a, b) == Len(a) < Len(b) /\ SubSeq(b, 1, Len(a)) = a

\* C10: in the display list the background command of a box stands strictly
\* before every command of each of its descendants.
C10_BackgroundBeforeDescendants ==
    lay_pc = "listed" =>
        \A i, j \in 1..Len(display_list) :
            (/\ display_list[i].part = "background"
             /\ IsAncestor(display_list[i].box, display_list[j].box)) => i < j

\* C10 witness: a display list with the background of a box, commands of a
\* child and of a grandchild of it after it, and a border command.
C10_Witness ==
    /\ lay_pc = "listed"
    /\ \E i, j, k \in 1..Len(display_list) :
          /\ display_list[i].part = "background"
          /\ IsAncestor(display_list[i].box, display_list[j].box)
          /\ IsAncestor(display_list[j].box, display_list[k].box)
          /\ display_list[j].part = "background"
          /\ display_list[k].part # "background"
          /\ i < j /\ j < k

----------------------------------------------------------------------------
(* painting: the rasterizing painter, section 4.3 of the specification.    *)
(* The pixel buffer is row-major, one colour per pixel, white at first.    *)
(* The model keeps the buffer as the map from the index of every pixel     *)
(* written so far to its colour; a pixel never written holds the white it  *)
(* was created with.                                                       *)

White == ColorValue(255, 255, 255, 255)

\* Canvas::new: a width x height buffer, every pixel white.
Canvas(width, height) == [width |-> width, height |-> height, pixels |-> EmptyMap]

\* The colour of pixel (x, y): pixels[y * width + x].
pixel(cv, x, y) ==
    IF (y * cv.width + x) \in DOMAIN cv.pixels THEN cv.pixels[y * cv.width + x] ELSE White

\* f32::clamp
clamp(v, lo, hi) == IF v < lo THEN lo ELSE IF v > hi THEN hi ELSE v

\* A variant that leaves alone the pixels an earlier command has written.
paint_item_keep_painted(cv, item) ==
    LET x0 == clamp(item.rect.x, 0, cv.width)
        y0 == clamp(item.rect.y, 0, cv.height)
        x1 == clamp(item.rect.x + item.rect.width, 0, cv.width)
        y1 == clamp(item.rect.y + item.rect.height, 0, cv.height)
    IN  [cv EXCEPT !.pixels =
            @ @@ [i \in {y * cv.width + x : x \in x0..(x1 - 1), y \in y0..(y1 - 1)} |->
                    item.color]]

\* Canvas::paint_item: the rectangle of the command is clipped to the canvas
\* (origin and far edge floored; lengths are integers here) and every pixel
\* inside is overwritten with the command's colour.
paint_item(cv, item) ==
    LET x0 == clamp(item.rect.x, 0, cv.width)
        y0 == clamp(item.rect.y, 0, cv.height)
        x1 == clamp(item.rect.x + item.rect.width, 0, cv.width)
        y1 == clamp(item.rect.y + item.rect.height, 0, cv.height)
    IN  [cv EXCEPT !.pixels =
            [i \in {y * cv.width + x : x \in x0..(x1 - 1), y \in y0..(y1 - 1)} |->
                item.color] @@ @]

----------------------------------------------------------------------------
(* The painter as a state machine.  painting::paint builds the display     *)
(* list of the layout tree, creates the canvas and paints the commands in  *)
(* list order, one step of the model per command.  The inputs are display  *)
(* lists to paint on a small canvas, and styled trees that go through      *)
(* layout and painting on the viewport of main.rs.                         *)

MaxCommands == 2    \* commands per display list in the painter inputs

\* The canvas of the display-list inputs: 4 x 3 pixels.
SmallBounds == Rect(0, 0, 4, 3)

\* The commands of the display-list inputs: inside the canvas, overlapping,
\* over an edge, over a corner, outside, empty, and covering everything.
PaintCommands ==
    { SolidRectangle(Red, Rect(0, 0, 2, 2), <<>>, "background"),
      SolidRectangle(Blue, Rect(1, 1, 2, 2), <<>>, "background"),
      SolidRectangle(Green, Rect(-1, -1, 2, 3), <<>>, "background"),
      SolidRectangle(Red, Rect(2, 2, 5, 5), <<>>, "background"),
      SolidRectangle(Blue, Rect(9, 9, 2, 2), <<>>, "background"),
      SolidRectangle(Green, Rect(2, 1, 0, 2), <<>>, "background"),
      SolidRectangle(White, Rect(-2, -2, 9, 9), <<>>, "background") }

PaintLists == SeqsUpTo(PaintCommands, MaxCommands)

\* The styled trees that go through the whole pipeline.
Scenario == styled(LayoutStyles.scenario, <<>>)

PipelineInputs ==
    { Scenario,
      styled(LayoutStyles.framed, <<Scenario, styled(LayoutStyles.centered, <<>>)>>) }

InitPaint ==
    /\ \/ /\ lay_styled \in PipelineInputs
          /\ display_list = <<>>
          /\ lay_pc = "start"
          /\ paint_bounds = Viewport.content
       \/ /\ lay_styled = NoValue
          /\ display_list \in PaintLists
          /\ lay_pc = "listed"
          /\ paint_bounds = SmallBounds
    /\ layout_root = NoValue
    /\ canvas = NoValue
    /\ paint_next = 0
    /\ StyleIdle /\ CssIdle /\ PdfIdle /\ HtmlIdle

\* painting::paint: let mut canvas = Canvas::new(bounds.width, bounds.height)
CanvasNew ==
    /\ lay_pc = "listed"
    /\ paint_bounds # NoValue
    /\ canvas' = Canvas(paint_bounds.width, paint_bounds.height)
    /\ paint_next' = 1
    /\ lay_pc' = "painting"
    /\ UNCHANGED <<lay_styled, layout_root, display_list, paint_bounds>>
    /\ UNCHANGED styleVars /\ UNCHANGED cssVars
    /\ UNCHANGED pdfVars /\ UNCHANGED htmlVars

\* painting::paint: one iteration of the loop over the display list.
PaintItem ==
    /\ lay_pc = "painting"
    /\ paint_next <= Len(display_list)
    /\ canvas' = paint_item(canvas, display_list[paint_next])
    /\ paint_next' = paint_next + 1
    /\ UNCHANGED <<lay_styled, layout_root, display_list, lay_pc, paint_bounds>>
    /\ UNCHANGED styleVars /\ UNCHANGED cssVars
    /\ UNCHANGED pdfVars /\ UNCHANGED htmlVars

\* painting::paint: the loop is over, the canvas is returned.
PaintDone ==
    /\ lay_pc = "painting"
    /\ paint_next > Len(display_list)
    /\ lay_pc' = "painted"
    /\ UNCHANGED <<lay_styled, layout_root, display_list, paint_bounds, canvas, paint_next>>
    /\ UNCHANGED styleVars /\ UNCHANGED cssVars
    /\ UNCHANGED pdfVars /\ UNCHANGED htmlVars

NextPaint == LayoutTree \/ BuildDisplayList \/ CanvasNew \/ PaintItem \/ PaintDone

SpecPaint == InitPaint /\ [][NextPaint]_vars

----------------------------------------------------------------------------
(* Properties of the painter.                                              *)

\* The rectangle of the command covers pixel (x, y).
Covers(item, x, y) ==
    /\ item.rect.x <= x /\ x < item.rect.x + item.rect.width
    /\ item.rect.y <= y /\ y < item.rect.y + item.rect.height

\* The colour pixel (x, y) is to have after the first n commands: that of
\* the last of them that covers it, white if none does.
ExpectedColor(n, x, y) ==
    LET over == {i \in 1..n : Covers(display_list[i], x, y)}
    IN  IF over = {} THEN White
        ELSE display_list[CHOOSE i \in over : \A j \in over : j <= i].color

\* C11: commands are painted in list order with unconditional overwrite:
\* after painting, every pixel of the canvas holds the colour of the last
\* command whose rectangle covers it, and the initial white if none does
\* (and so it is after every command painted on the way).
C11_LastCommandWins ==
    lay_pc \in {"painting", "painted"} =>
        \A x \in 0..(canvas.width - 1), y \in 0..(canvas.height - 1) :
            pixel(canvas, x, y) = ExpectedColor(paint_next - 1, x, y)

\* C11 witness: a painted canvas with a pixel under two commands of
\* different colours that holds the later one's, a pixel no command covers,
\* and a command that reaches beyond the canvas.
C11_Witness ==
    /\ lay_pc = "painted"
    /\ Len(display_list) = 2
    /\ display_list[1].color # display_list[2].color
    /\ \E x \in 0..(canvas.width - 1), y \in 0..(canvas.height - 1) :
          /\ Covers(display_list[1], x, y) /\ Covers(display_list[2], x, y)
          /\ pixel(canvas, x, y) = display_list[2].color
    /\ \E x \in 0..(canvas.width - 1), y \in 0..(canvas.height - 1) :
          /\ ~Covers(display_list[1], x, y) /\ ~Covers(display_list[2], x, y)
          /\ pixel(canvas, x, y) = White
    /\ \E i \in 1..2 : display_list[i].rect.x + display_list[i].rect.width > canvas.width

\* The pixels of the canvas are red inside [x0, x1) x [y0, y1) and white
\* everywhere else.
RedExactly(x0, y0, x1, y1) ==
    \A x \in 0..(canvas.width - 1), y \in 0..(canvas.height - 1) :
        pixel(canvas, x, y)
          = IF x0 <= x /\ x < x1 /\ y0 <= y /\ y < y1 THEN Red ELSE White

\* C12 as claimed: the box of the scenario (width 100, height 50, margin 10,
\* background #ff0000, in the 800 x 600 viewport at the origin) has content
\* rectangle {10, 10, 100, 50} and margin box {0, 0, 120, 70}, and painting
\* makes exactly the pixels with 10 <= x < 110, 10 <= y < 60 red.
C12_Scenario ==
    (lay_pc = "painted" /\ lay_styled = Scenario) =>
        /\ layout_root.dimensions.content = Rect(10, 10, 100, 50)
        /\ margin_box(layout_root.dimensions) = Rect(0, 0, 120, 70)
        /\ canvas.width = ViewportWidth /\ canvas.height = ViewportHeight
        /\ RedExactly(10, 10, 110, 60)

\* C12 as amended: the same, with the margin box {0, 0, 800, 70}: the right
\* margin takes what is left of the containing width, 690.
C12_ScenarioAmended ==
    (lay_pc = "painted" /\ lay_styled = Scenario) =>
        /\ layout_root.dimensions.content = Rect(10, 10, 100, 50)
        /\ layout_root.dimensions.margin = EdgeSizes(10, 690, 10, 10)
        /\ margin_box(layout_root.dimensions) = Rect(0, 0, 800, 70)
        /\ canvas.width = ViewportWidth /\ canvas.height = ViewportHeight
        /\ RedExactly(10, 10, 110, 60)

\* C12 witness: the scenario has been laid out and painted on the 800 x 600
\* canvas; the corners of the red area are red, the pixels next to them white.
C12_Witness ==
    /\ lay_pc = "painted" /\ lay_styled = Scenario
    /\ canvas.width = 800 /\ canvas.height = 600
    /\ Len(display_list) = 1
    /\ pixel(canvas, 10, 10) = Red /\ pixel(canvas, 109, 59) = Red
    /\ pixel(canvas, 9, 10) = White /\ pixel(canvas, 110, 59) = White
    /\ pixel(canvas, 109, 60) = White

----------------------------------------------------------------------------
(* pdf: the page-description emitter that main.rs calls as pdf::render,    *)
(* section 4.4 of the specification.  The output is a sequence of chunks   *)
(* of bytes (strings); a byte offset is the number of bytes in the chunks  *)
(* before it.  Numbers are written in decimal, one chunk per digit.        *)

\* The number of bytes written so far: the offset of the next byte.
RECURSIVE stream_position(_)
stream_position(out) ==
    IF out = <<>> THEN 0
    ELSE IF Len(out) = 1 THEN Len(out[1])
    ELSE stream_position(SubSeq(out, 1, Len(out) \div 2))
         + stream_position(SubSeq(out, (Len(out) \div 2) + 1, Len(out)))

\* The decimal digits of a natural number.
RECURSIVE decimal(_)
decimal(n) ==
    IF n < 10 THEN <<DigitSeq[n + 1]>>
    ELSE Append(decimal(n \div 10), DigitSeq[(n % 10) + 1])

\* A number as the content stream writes it.
number(n) == IF n < 0 THEN <<"-">> \o decimal(0 - n) ELSE decimal(n)

\* {:010}: a natural number in ten digits, zero-padded on the left.
padded10(n) == [i \in 1..(10 - Len(decimal(n))) |-> "0"] \o decimal(n)

\* A colour component as a fraction of 1, to three places.
component(c) ==
    IF c = 255 THEN <<"1">>
    ELSE IF c = 0 THEN <<"0">>
    ELSE <<"0", ".">> \o [i \in 1..(3 - Len(decimal((c * 1000) \div 255))) |-> "0"]
         \o decimal((c * 1000) \div 255)

\* The objects of the document, in emission order; the catalog is the last.
PdfObjects == <<"graphics-state", "page", "content-stream", "catalog">>
catalog_number == Len(PdfObjects)

\* The fill operators of one display command, in page coordinates: the y
\* axis of the page points up, so the rectangle's lower edge is at
\* page height - (y + height).
fill_rectangle(item, page) ==
    component(item.color.r) \o <<" ">> \o component(item.color.g) \o <<" ">>
    \o component(item.color.b) \o <<" rg\n">>
    \o number(item.rect.x) \o <<" ">>
    \o number(page.height - (item.rect.y + item.rect.height)) \o <<" ">>
    \o number(item.rect.width) \o <<" ">> \o number(item.rect.height) \o <<" re\nf\n">>

\* The content stream: the fill operators of the display list, in order.
RECURSIVE content_stream(_, _)
content_stream(list, page) ==
    IF list = <<>> THEN <<>>
    ELSE fill_rectangle(Head(list), page) \o content_stream(Tail(list), page)

\* The body of object number k.
object_body(k, list, page) ==
    CASE PdfObjects[k] = "graphics-state" -> <<"<< /Type /ExtGState >>">>
      [] PdfObjects[k] = "page" ->
            <<"<< /Type /Page /MediaBox [0 0 ">> \o number(page.width) \o <<" ">>
            \o number(page.height) \o <<"] /Contents 3 0 R >>">>
      [] PdfObjects[k] = "content-stream" ->
            <<"<< /Length ">> \o number(stream_position(content_stream(list, page)))
            \o <<" >>\nstream\n">> \o content_stream(list, page) \o <<"endstream">>
      [] OTHER -> <<"<< /Type /Catalog /Pages 2 0 R >>">>

\* The first chunk of object number k: "k 0 obj".
object_header(k) == Str(decimal(k)) \o " 0 obj\n"

\* Object number k as written: header, body, endobj.
object(k, list, page) ==
    <<object_header(k)>> \o object_body(k, list, page) \o <<"\nendobj\n">>

\* A variant that records the position after the object has been written.
object_offset_after_write(out, chunks) == stream_position(out) + stream_position(chunks)

\* The offset recorded for an object: the position of the output when the
\* object is about to be written.
object_offset(out, chunks) == stream_position(out)

\* One entry of the cross-reference table.
xref_entry(offset) == padded10(offset) \o <<" 00000 n \n">>

RECURSIVE xref_entries(_)
xref_entries(offsets) ==
    IF offsets = <<>> THEN <<>>
    ELSE xref_entry(Head(offsets)) \o xref_entries(Tail(offsets))

\* The cross-reference table: the free entry 0, then one entry per object in
\* emission order.
xref_table(offsets) ==
    <<"xref\n", "0 ">> \o number(Len(offsets) + 1) \o <<"\n", "0000000000 65535 f \n">>
    \o xref_entries(offsets)

\* The trailer: it names the catalog and says where the table starts.
trailer(size, root, xref_at) ==
    <<"trailer\n", "<< /Size ">> \o number(size) \o <<" /Root ">> \o number(root)
    \o <<" 0 R >>\n", "startxref\n">> \o number(xref_at) \o <<"\n%%EOF\n">>

PdfHeader == <<"%PDF-1.4\n">>

----------------------------------------------------------------------------
(* The emitter as a state machine: main.rs lays the tree out and calls     *)
(* pdf::render(&layout_root, viewport.content, &mut file).  One step of    *)
(* the model per write; any write can fail with an I/O error after a part  *)
(* of its bytes, and render then returns the error.                        *)

PdfInputs ==
    PipelineInputs
    \cup { styled(LayoutStyles.plain, <<>>),
           styled(LayoutStyles.plain, <<styled(LayoutStyles.framed, <<>>), Scenario>>),
           styled(LayoutStyles.hidden, <<Scenario>>) }

InitPdf ==
    /\ lay_styled \in PdfInputs
    /\ layout_root = NoValue
    /\ display_list = <<>>
    /\ lay_pc = "start"
    /\ pdf_out = <<>> /\ pdf_offsets = <<>> /\ pdf_xref_at = 0 /\ pdf_next = 0
    /\ pdf_pc = "start" /\ pdf_result = "none"
    /\ StyleIdle /\ CssIdle /\ PaintIdle /\ HtmlIdle

\* The chunks the next write puts out.
PdfNextWrite ==
    CASE pdf_pc = "start" -> PdfHeader
      [] pdf_pc = "objects" -> object(pdf_next, build_display_list(layout_root), Viewport.content)
      [] pdf_pc = "xref" -> xref_table(pdf_offsets)
      [] pdf_pc = "trailer" -> trailer(Len(pdf_offsets) + 1, catalog_number, pdf_xref_at)
      [] OTHER -> <<>>

\* pdf::render: the file header.
PdfWriteHeader ==
    /\ lay_pc = "laid_out" /\ pdf_pc = "start"
    /\ pdf_out' = pdf_out \o PdfNextWrite
    /\ pdf_next' = 1
    /\ pdf_pc' = "objects"
    /\ UNCHANGED <<pdf_offsets, pdf_xref_at, pdf_result>>
    /\ UNCHANGED styleVars /\ UNCHANGED cssVars /\ UNCHANGED layVars
    /\ UNCHANGED paintVars /\ UNCHANGED htmlVars

\* pdf::render: the next object; its offset is recorded in the table.
PdfWriteObject ==
    /\ pdf_pc = "objects"
    /\ pdf_offsets' = Append(pdf_offsets, object_offset(pdf_out, PdfNextWrite))
    /\ pdf_out' = pdf_out \o PdfNextWrite
    /\ pdf_next' = pdf_next + 1
    /\ pdf_pc' = IF pdf_next = Len(PdfObjects) THEN "xref" ELSE "objects"
    /\ UNCHANGED <<pdf_xref_at, pdf_result>>
    /\ UNCHANGED styleVars /\ UNCHANGED cssVars /\ UNCHANGED layVars
    /\ UNCHANGED paintVars /\ UNCHANGED htmlVars

\* pdf::render: the cross-reference table.
PdfWriteXref ==
    /\ pdf_pc = "xref"
    /\ pdf_xref_at' = stream_position(pdf_out)
    /\ pdf_out' = pdf_out \o PdfNextWrite
    /\ pdf_pc' = "trailer"
    /\ UNCHANGED <<pdf_offsets, pdf_next, pdf_result>>
    /\ UNCHANGED styleVars /\ UNCHANGED cssVars /\ UNCHANGED layVars
    /\ UNCHANGED paintVars /\ UNCHANGED htmlVars

\* pdf::render: the trailer; render returns Ok(()).
PdfWriteTrailer ==
    /\ pdf_pc = "trailer"
    /\ pdf_out' = pdf_out \o PdfNextWrite
    /\ pdf_pc' = "done"
    /\ pdf_result' = "ok"
    /\ UNCHANGED <<pdf_offsets, pdf_xref_at, pdf_next>>
    /\ UNCHANGED styleVars /\ UNCHANGED cssVars /\ UNCHANGED layVars
    /\ UNCHANGED paintVars /\ UNCHANGED htmlVars

\* A write fails with an I/O error after some of its chunks: render returns
\* the error and writes nothing more.
PdfWriteFails ==
    /\ lay_pc = "laid_out"
    /\ pdf_pc \in {"start", "objects", "xref", "trailer"}
    /\ \E n \in 0..(Len(PdfNextWrite) - 1) :
          pdf_out' = pdf_out \o SubSeq(PdfNextWrite, 1, n)
    /\ pdf_pc' = "failed"
    /\ pdf_result' = "err"
    /\ UNCHANGED <<pdf_offsets, pdf_xref_at, pdf_next>>
    /\ UNCHANGED styleVars /\ UNCHANGED cssVars /\ UNCHANGED layVars
    /\ UNCHANGED paintVars /\ UNCHANGED htmlVars

NextPdf ==
    \/ LayoutTree \/ PdfWriteHeader \/ PdfWriteObject \/ PdfWriteXref
    \/ PdfWriteTrailer \/ PdfWriteFails

SpecPdf == InitPdf /\ [][NextPdf]_vars

----------------------------------------------------------------------------
(* Properties of the emitter, read back from the bytes it wrote.           *)

\* The index of the chunk that starts at byte offset o, 0 when no chunk does.
ChunkAtOffset(out, o) ==
    LET at == { i \in 1..Len(out) : stream_position(SubSeq(out, 1, i - 1)) = o }
    IN IF at = {} THEN 0 ELSE CHOOSE i \in at : \A j \in at : i <= j

\* The index of the first chunk equal to c, 0 when there is none.
ChunkIndex(out, c) ==
    LET at == { i \in 1..Len(out) : out[i] = c }
    IN IF at = {} THEN 0 ELSE CHOOSE i \in at : \A j \in at : i <= j

\* The value of a sequence of decimal digit chunks.
RECURSIVE DecimalValue(_)
DecimalValue(ds) ==
    IF ds = <<>> THEN 0
    ELSE 10 * DecimalValue(Front(ds))
         + (CHOOSE d \in 0..9 : DigitSeq[d + 1] = Last(ds))

\* The offset that entry k of the written cross-reference table holds: the
\* table starts with "xref", the count (3 chunks) and the free entry, and
\* every entry is ten digits and a suffix.
XrefOffset(out, k) ==
    LET first == ChunkIndex(out, "xref\n") + 5 + (k - 1) * 11
    IN DecimalValue(SubSeq(out, first, first + 9))

\* The object number the written trailer names as the catalog.
TrailerRoot(out) ==
    LET size == ChunkIndex(out, "<< /Size ")
        root == CHOOSE i \in size..Len(out) : out[i] = " /Root "
        stop == CHOOSE i \in root..Len(out) : out[i] = " 0 R >>\n"
    IN DecimalValue(SubSeq(out, root + 1, stop - 1))

C13_WitnessFailed ==
    /\ pdf_pc = "failed"
    /\ Len(pdf_offsets) = Len(PdfObjects)
    /\ ChunkIndex(pdf_out, "xref\n") > 0
    /\ ChunkIndex(pdf_out, "trailer\n") = 0

----------------------------------------------------------------------------
(* Properties of StyledNode::value and StyledNode::lookup.                 *)

\* Property names asked for: two that rules declare and one that none does.
LookupNames == StyleProps \cup {"margin"}

\* The default handed to lookup: a value no rule declares.
LookupDefault == Length(0, Px)

\* C14: lookup returns the value of `name` when the node's mapping has it,
\* else the value of `fallback_name` when the mapping has that, else the
\* default; value(name) is Some exactly when the mapping contains name, and
\* then holds the mapped value.
C14_LookupFallsBack ==
    style_pc = "styled" =>
        \A sn \in StyledNodes(style_root) : \A name \in LookupNames :
            /\ value(sn, name).some <=> name \in DOMAIN sn.specified_values
            /\ name \in DOMAIN sn.specified_values =>
                  value(sn, name) = Some(sn.specified_values[name])
            /\ \A fallback_name \in LookupNames :
                  lookup(sn, name, fallback_name, LookupDefault) =
                     IF name \in DOMAIN sn.specified_values
                     THEN sn.specified_values[name]
                     ELSE IF fallback_name \in DOMAIN sn.specified_values
                     THEN sn.specified_values[fallback_name]
                     ELSE LookupDefault

\* C14 witness: one styled tree with a node where the name is present and
\* differs from the fallback, a node where only the fallback is present, and
\* a node where neither is.
C14_Witness ==
    /\ style_pc = "styled"
    /\ \E sn \in StyledNodes(style_root) :
          /\ {"width", "display"} \subseteq DOMAIN sn.specified_values
          /\ sn.specified_values["width"] # sn.specified_values["display"]
          /\ lookup(sn, "width", "display", LookupDefault) = sn.specified_values["width"]
    /\ \E sn \in StyledNodes(style_root) :
          /\ DOMAIN sn.specified_values = {"display"}
          /\ lookup(sn, "width", "display", LookupDefault) = sn.specified_values["display"]
          /\ value(sn, "width") = None
    /\ \E sn \in StyledNodes(style_root) :
          /\ DOMAIN sn.specified_values = {}
          /\ lookup(sn, "width", "display", LookupDefault) = LookupDefault

----------------------------------------------------------------------------
(* html.rs: the parser.  Its Parser has the same cursor methods as the one *)
(* of css.rs (next_char, eof, consume_char, consume_while,                 *)
(* consume_whitespace), so the operators above serve both; the parsing     *)
(* methods are operators from the input and the position to a result, as   *)
(* for css.rs.                                                             *)

\* Parser::starts_with: input[pos..] must be a slice on a character
\* boundary; the value is whether the characters of s follow.
starts_with(inp, pos, s) ==
    IF pos > byte_len(inp) \/ ~is_char_boundary(inp, pos) THEN Panicked("starts_with")
    ELSE R(pos, pos + Len(s) <= byte_len(inp) /\ SubSeq(inp, pos + 1, pos + Len(s)) = s)

\* Parser::parse_tag_name
parse_tag_name(inp, pos) == consume_while(inp, pos, "tag_name")

\* Parser::parse_text
parse_text(inp, pos) ==
    Then(consume_while(inp, pos, "text"), LAMBDA s : R(s.pos, text(Str(s.v))))

\* Parser::parse_attr_value
parse_attr_value(inp, pos) ==
    Then(consume_char(inp, pos), LAMBDA open_quote :
    IF open_quote.v \notin {"\"", "'"} THEN Panicked("assertion failed: open_quote")
    ELSE Then(consume_while(inp, open_quote.pos,
                            IF open_quote.v = "\"" THEN "double_quoted" ELSE "single_quoted"),
              LAMBDA val :
         Then(expect_char(inp, val.pos, open_quote.v), LAMBDA close :
         R(close.pos, val.v))))

\* Parser::parse_attr
parse_attr(inp, pos) ==
    Then(parse_tag_name(inp, pos), LAMBDA name :
    Then(expect_char(inp, name.pos, "="), LAMBDA eq :
    Then(parse_attr_value(inp, eq.pos), LAMBDA val :
    R(val.pos, <<Str(name.v), val.v>>))))

\* The loop of Parser::parse_attributes
RECURSIVE attributes_loop(_, _, _)
attributes_loop(inp, pos, attributes) ==
    Then(consume_whitespace(inp, pos), LAMBDA w :
    Then(next_char(inp, w.pos), LAMBDA c :
    IF c.v = ">" THEN R(w.pos, attributes)
    ELSE Then(parse_attr(inp, w.pos), LAMBDA a :
         attributes_loop(inp, a.pos, MapInsert(attributes, a.v[1], a.v[2])))))

\* Parser::parse_attributes
parse_attributes(inp, pos) == attributes_loop(inp, pos, EmptyMap)

\* "-".repeat(n)
repeat_dash(n) == [i \in 1..n |-> "-"]

\* The loop of Parser::parse_comment
RECURSIVE comment_loop(_, _, _, _)
comment_loop(inp, pos, data, consecutive_dashes) ==
    Then(consume_char(inp, pos), LAMBDA c :
    IF c.v = "-" THEN comment_loop(inp, c.pos, data, consecutive_dashes + 1)
    ELSE IF c.v = ">" /\ consecutive_dashes >= 2 THEN R(c.pos, data)
    ELSE comment_loop(inp, c.pos, data \o repeat_dash(consecutive_dashes) \o <<c.v>>, 0))

\* Parser::parse_comment
parse_comment(inp, pos) ==
    Then(expect_char(inp, pos, "<"), LAMBDA c1 :
    Then(expect_char(inp, c1.pos, "!"), LAMBDA c2 :
    Then(expect_char(inp, c2.pos, "-"), LAMBDA c3 :
    Then(expect_char(inp, c3.pos, "-"), LAMBDA c4 :
    Then(comment_loop(inp, c4.pos, <<>>, 0), LAMBDA data :
    R(data.pos, comment(Str(data.v))))))))

\* The closing tag of Parser::parse_element: when `</` follows, a closing
\* tag of any name is consumed (a name other than the element's only prints
\* a warning); when it does not, a warning is printed and nothing consumed.
closing_tag(inp, pos) ==
    Then(starts_with(inp, pos, <<"<", "/">>), LAMBDA sw :
    IF ~sw.v THEN R(pos, "missing")
    ELSE Then(expect_char(inp, pos, "<"), LAMBDA c1 :
         Then(expect_char(inp, c1.pos, "/"), LAMBDA c2 :
         Then(parse_tag_name(inp, c2.pos), LAMBDA closing_tag_name :
         Then(expect_char(inp, closing_tag_name.pos, ">"), LAMBDA c3 :
         R(c3.pos, Str(closing_tag_name.v)))))))

RECURSIVE parse_element(_, _)
RECURSIVE parse_nodes_loop(_, _, _)

\* Parser::parse_node
parse_node(inp, pos) ==
    Then(next_char(inp, pos), LAMBDA c :
    IF c.v = "<"
    THEN Then(starts_with(inp, pos, <<"<", "!", "-", "-">>), LAMBDA sw :
         IF sw.v THEN parse_comment(inp, pos) ELSE parse_element(inp, pos))
    ELSE parse_text(inp, pos))

\* A variant that does not skip the whitespace before a node.
parse_nodes_iteration_keeping_whitespace(inp, pos) ==
    IF eof(inp, pos) THEN R(pos, NoValue)
    ELSE Then(starts_with(inp, pos, <<"<", "/">>), LAMBDA sw :
         IF sw.v THEN R(pos, NoValue) ELSE parse_node(inp, pos))

\* One iteration of the loop of Parser::parse_nodes: the node parsed, or
\* [ok, pos, v = NoValue] when the loop breaks (end of input, or `</`), or
\* the panic.
parse_nodes_iteration(inp, pos) ==
    Then(consume_whitespace(inp, pos), LAMBDA w :
    IF eof(inp, w.pos) THEN R(w.pos, NoValue)
    ELSE Then(starts_with(inp, w.pos, <<"<", "/">>), LAMBDA sw :
         IF sw.v THEN R(w.pos, NoValue) ELSE parse_node(inp, w.pos)))

parse_nodes_loop(inp, pos, nodes) ==
    Then(parse_nodes_iteration(inp, pos), LAMBDA n :
    IF n.v = NoValue THEN R(n.pos, nodes)
    ELSE parse_nodes_loop(inp, n.pos, Append(nodes, n.v)))

\* Parser::parse_nodes
parse_nodes(inp, pos) == parse_nodes_loop(inp, pos, <<>>)

\* Parser::parse_element
parse_element(inp, pos) ==
    Then(expect_char(inp, pos, "<"), LAMBDA open :
    Then(parse_tag_name(inp, open.pos), LAMBDA tag_name :
    Then(parse_attributes(inp, tag_name.pos), LAMBDA attrs :
    Then(expect_char(inp, attrs.pos, ">"), LAMBDA gt :
    Then(parse_nodes(inp, gt.pos), LAMBDA children :
    Then(closing_tag(inp, children.pos), LAMBDA close :
    R(close.pos, elem(Str(tag_name.v), attrs.v, children.v))))))))

\* A variant of the end of html::parse that always makes a root element.
document_root_always_synthesized(nodes) == elem("html", EmptyMap, nodes)

\* The end of html::parse: the only node, or a new `html` element around
\* the nodes.
document_root(nodes) == IF Len(nodes) = 1 THEN nodes[1] ELSE elem("html", EmptyMap, nodes)

----------------------------------------------------------------------------
(* The HTML parser as a state machine: html::parse runs Parser::parse_nodes *)
(* on the whole source, one step of the model per iteration of its loop,   *)
(* and then chooses the root.                                              *)

MaxTokens == 3

\* The pieces the sources are made of.
OpenDiv == <<"<", "d", "i", "v", ">">>
OpenP == <<"<", "p", ">">>
OpenWithId == <<"<", "p", " ", "i", "d", "=", "\"", "x", "\"", ">">>
CloseDiv == <<"<", "/", "d", "i", "v", ">">>
CloseP == <<"<", "/", "p", ">">>
TextHi == <<"h", "i">>
TextAccent == <<"é", Cont>>
Blank == <<" ">>
CommentC == <<"<", "!", "-", "-", "c", "-", "-", ">">>
CommentDash == <<"<", "!", "-", "-", "a", "-", "-", "-", ">">>
CutTag == <<"<", "d", "i", "v">>
CutComment == <<"<", "!", "-", "-", "x">>

HtmlTokens ==
    { OpenDiv, OpenP, OpenWithId, CloseDiv, CloseP, TextHi, TextAccent, Blank,
      CommentC, CommentDash, CutTag, CutComment }

HtmlTokenLists == SeqsUpTo(HtmlTokens, MaxTokens)

\* html::parse: Parser::new(source)
InitHtml ==
    /\ html_tokens \in HtmlTokenLists
    /\ html_input = Concat(html_tokens)
    /\ html_pos = 0
    /\ html_nodes = <<>>
    /\ html_root = NoValue
    /\ html_pc = "parsing"
    /\ StyleIdle /\ CssIdle /\ LayIdle /\ PaintIdle /\ PdfIdle

\* An iteration of the loop of parse_nodes that pushes a node.
HtmlParseNode ==
    /\ html_pc = "parsing"
    /\ \E n \in {parse_nodes_iteration(html_input, html_pos)} :
          /\ n.ok
          /\ n.v # NoValue
          /\ html_nodes' = Append(html_nodes, n.v)
          /\ html_pos' = n.pos
    /\ UNCHANGED <<html_tokens, html_input, html_root, html_pc>>
    /\ UNCHANGED styleVars /\ UNCHANGED cssVars /\ UNCHANGED layVars
    /\ UNCHANGED paintVars /\ UNCHANGED pdfVars

\* The iteration that breaks the loop: parse_nodes returns and html::parse
\* returns the root.
HtmlParseDone ==
    /\ html_pc = "parsing"
    /\ \E n \in {parse_nodes_iteration(html_input, html_pos)} :
          /\ n.ok
          /\ n.v = NoValue
          /\ html_pos' = n.pos
    /\ html_root' = document_root(html_nodes)
    /\ html_pc' = "done"
    /\ UNCHANGED <<html_tokens, html_input, html_nodes>>
    /\ UNCHANGED styleVars /\ UNCHANGED cssVars /\ UNCHANGED layVars
    /\ UNCHANGED paintVars /\ UNCHANGED pdfVars

\* An iteration that panics: html::parse returns nothing.
HtmlParsePanic ==
    /\ html_pc = "parsing"
    /\ ~parse_nodes_iteration(html_input, html_pos).ok
    /\ html_pc' = "panic"
    /\ UNCHANGED <<html_tokens, html_input, html_pos, html_nodes, html_root>>
    /\ UNCHANGED styleVars /\ UNCHANGED cssVars /\ UNCHANGED layVars
    /\ UNCHANGED paintVars /\ UNCHANGED pdfVars

NextHtml == HtmlParseNode \/ HtmlParseDone \/ HtmlParsePanic

SpecHtml == InitHtml /\ [][NextHtml]_vars

----------------------------------------------------------------------------
(* Properties of the HTML parser.                                          *)

\* C15: html::parse returns the single top-level node itself when the
\* source has exactly one, and otherwise a new `html` element with no
\* attributes whose children are the top-level nodes in order.
C15_SingleRootOrSynthesized ==
    html_pc = "done" =>
        /\ Len(html_nodes) = 1 => html_root = html_nodes[1]
        /\ Len(html_nodes) # 1 =>
              /\ html_root.node_type.kind = "Element"
              /\ html_root.node_type.tag_name = "html"
              /\ DOMAIN html_root.node_type.attributes = {}
              /\ html_root.children = html_nodes

\* C15 witness: a source with two top-level nodes, an element and a text,
\* under a synthesized root.
C15_Witness ==
    /\ html_pc = "done"
    /\ html_tokens = <<OpenDiv, CloseDiv, TextHi>>
    /\ Len(html_nodes) = 2
    /\ html_root = elem("html", EmptyMap, <<elem("div", EmptyMap, <<>>), text("hi")>>)

\* A source with one top-level node, a text that is not wrapped.
C15_WitnessSingle ==
    /\ html_pc = "done"
    /\ html_tokens = <<TextHi>>
    /\ html_root = text("hi")

\* The tree that a list of well-formed pieces stands for, read piece by
\* piece: blanks between nodes are skipped, an opening tag takes the nodes
\* that follow as its children up to the next closing tag (whatever its
\* name) or the end of the list, a comment is a node, and a run of text
\* pieces (blanks inside or after it included) is one Text node.
WellFormedPieces ==
    { OpenDiv, OpenP, OpenWithId, CloseDiv, CloseP, TextHi, TextAccent, Blank,
      CommentC, CommentDash }

IsOpenTag(t) == t \in {OpenDiv, OpenP, OpenWithId}
IsCloseTag(t) == t \in {CloseDiv, CloseP}
IsComment(t) == t \in {CommentC, CommentDash}
IsTextPiece(t) == t \in {TextHi, TextAccent, Blank}

TagOf(t) == IF t = OpenDiv THEN "div" ELSE "p"
AttributesOf(t) == IF t = OpenWithId THEN MapInsert(EmptyMap, "id", <<"x">>) ELSE EmptyMap

\* The characters of a comment piece between `<!--` and `-->`.
CommentText(t) == Str(SubSeq(t, 5, Len(t) - 3))

\* The characters of a byte sequence.
CharsOf(bytes) == SelectSeq(bytes, LAMBDA b : b # Cont)

\* The first index from i on whose piece is not a blank.
RECURSIVE SkipBlanks(_, _)
SkipBlanks(ts, i) == IF i <= Len(ts) /\ ts[i] = Blank THEN SkipBlanks(ts, i + 1) ELSE i

\* The index after the run of text pieces that starts at i.
RECURSIVE TextEnd(_, _)
TextEnd(ts, i) == IF i <= Len(ts) /\ IsTextPiece(ts[i]) THEN TextEnd(ts, i + 1) ELSE i

RECURSIVE ExpectedNodes(_, _)
ExpectedNodes(ts, i) ==
    LET j == SkipBlanks(ts, i)
    IN  IF j > Len(ts) \/ IsCloseTag(ts[j]) THEN [nodes |-> <<>>, next |-> j]
        ELSE IF IsOpenTag(ts[j])
        THEN LET kids == ExpectedNodes(ts, j + 1)
                 after == IF kids.next <= Len(ts) THEN kids.next + 1 ELSE kids.next
                 rest == ExpectedNodes(ts, after)
             IN [nodes |-> <<elem(TagOf(ts[j]), AttributesOf(ts[j]), kids.nodes)>> \o rest.nodes,
                 next |-> rest.next]
        ELSE IF IsComment(ts[j])
        THEN LET rest == ExpectedNodes(ts, j + 1)
             IN [nodes |-> <<comment(CommentText(ts[j]))>> \o rest.nodes, next |-> rest.next]
        ELSE LET k == TextEnd(ts, j)
                 rest == ExpectedNodes(ts, k)
             IN [nodes |-> <<text(Str(CharsOf(Concat(SubSeq(ts, j, k - 1)))))>> \o rest.nodes,
                 next |-> rest.next]

\* Sources of well-formed pieces in which every closing tag has an open
\* element to close.
ClosingTagsHaveOpenElement ==
    /\ \A i \in 1..Len(html_tokens) : html_tokens[i] \in WellFormedPieces
    /\ ExpectedNodes(html_tokens, 1).next > Len(html_tokens)

\* Some element is still open where the source ends: every closing tag
\* closes one element, and there are more opening than closing tags.
OpenAtEnd(ts) ==
    Cardinality({i \in 1..Len(ts) : IsOpenTag(ts[i])})
        > Cardinality({i \in 1..Len(ts) : IsCloseTag(ts[i])})

\* C16: missing or mismatched closing tags are not fatal: on a source of
\* well-formed tags, text and comments that ends with elements still open,
\* the parser does not panic; and the tree it returns is the one in which a
\* closing tag closes the innermost open element whatever its name, the
\* elements still open at the end of the input are closed there, and an
\* unclosed element takes the siblings that follow as its children.
C16_ClosingTagsNotFatal ==
    ClosingTagsHaveOpenElement =>
        /\ OpenAtEnd(html_tokens) => html_pc # "panic"
        /\ html_pc = "done" => html_nodes = ExpectedNodes(html_tokens, 1).nodes

\* The same on the sources that end neither in a multi-byte character nor
\* hold a comment with a dash before its `-->`.
C16_OnOtherSources ==
    (/\ ClosingTagsHaveOpenElement
     /\ html_tokens # <<>> => Last(html_tokens) # TextAccent
     /\ \A i \in 1..Len(html_tokens) : html_tokens[i] # CommentDash) =>
        /\ html_pc # "panic"
        /\ html_pc = "done" => html_nodes = ExpectedNodes(html_tokens, 1).nodes

\* An element left open at the end of a source that ends in a two-byte
\* character: the parser has panicked.
C16_PanicOnOpenElement ==
    ~(html_tokens = <<OpenP, TextAccent>> /\ html_pc = "panic")

\* The source starts with `<!--`.
StartsWithComment(inp) == Len(inp) >= 4 /\ SubSeq(inp, 1, 4) = <<"<", "!", "-", "-">>

\* The index at which the first `-->` after the opening `<!--` starts, 0
\* when there is none.
FirstTerminator(inp) ==
    LET at == { k \in 5..(Len(inp) - 2) : SubSeq(inp, k, k + 2) = <<"-", "-", ">">> }
    IN IF at = {} THEN 0 ELSE CHOOSE k \in at : \A j \in at : k <= j

\* The characters between the opening `<!--` and the first `-->`.
TextBetween(inp) == Str(CharsOf(SubSeq(inp, 5, FirstTerminator(inp) - 1)))

\* C17: for a source that starts with a terminated comment, the parser
\* produces a Comment node that holds exactly the characters between `<!--`
\* and the first following `-->`.
C17_CommentHoldsTextBetween ==
    (StartsWithComment(html_input) /\ FirstTerminator(html_input) > 0) =>
        /\ html_pc # "parsing" => Len(html_nodes) >= 1
        /\ Len(html_nodes) >= 1 => html_nodes[1] = comment(TextBetween(html_input))

\* The same for the comments whose text does not end in a dash.
C17_OnTextWithoutFinalDash ==
    (/\ StartsWithComment(html_input) /\ FirstTerminator(html_input) > 0
     /\ html_input[FirstTerminator(html_input) - 1] # "-") =>
        /\ html_pc # "parsing" => Len(html_nodes) >= 1
        /\ Len(html_nodes) >= 1 => html_nodes[1] = comment(TextBetween(html_input))

\* The comment <!--a---> has been parsed to a Comment node that holds `a`.
C17_DashDropped ==
    ~(/\ html_tokens = <<CommentDash>> /\ html_pc = "done"
      /\ html_root = comment("a") /\ TextBetween(html_input) = "a-")

----------------------------------------------------------------------------
(* Further properties of the CSS parser.                                   *)

\* cssom.rs: the units of Unit besides Px.
Rem == "Rem"
Em == "Em"

\* The Unit that a unit name stands for.
UnitNamed(u) == IF u = "px" THEN Px ELSE IF u = "em" THEN Em ELSE Rem

\* The number written at index j.
NumberAt(inp, j) == parse_f32(SubSeq(inp, j, RunEnd(inp, j, "float") - 1))

\* Every numeric value of the source is a well-formed number with one of
\* the given units.
NumericValuesIn(inp, units) ==
    /\ NumericValueStarts(inp) # {}
    /\ \A j \in NumericValueStarts(inp) :
          /\ NumberAt(inp, j).some
          /\ Str(to_ascii_lowercase(UnitAfter(inp, j))) \in units

\* The values of all declarations of the rules parsed.
ParsedValues ==
    UNION { { css_rules[i].declarations[k].value : k \in 1..Len(css_rules[i].declarations) } :
            i \in 1..Len(css_rules) }

\* C18: css::parse accepts lengths in rem and em as well as px: a source
\* whose numeric values carry these units is not refused for its units, and
\* each value parses to Length(number, unit) with the unit written.
C18_RemAndEmAccepted ==
    NumericValuesIn(css_input, {"px", "em", "rem"}) =>
        /\ css_panic # "unrecognized unit"
        /\ css_pc = "done" =>
              \A j \in NumericValueStarts(css_input) :
                  Length(NumberAt(css_input, j).v,
                         UnitNamed(Str(to_ascii_lowercase(UnitAfter(css_input, j)))))
                      \in ParsedValues

\* The same for px alone.
C18_PxAccepted ==
    NumericValuesIn(css_input, {"px"}) =>
        /\ css_panic # "unrecognized unit"
        /\ css_pc = "done" =>
              \A j \in NumericValueStarts(css_input) :
                  Length(NumberAt(css_input, j).v, Px) \in ParsedValues

\* The source a{w:1em;} has been refused for its unit.
C18_EmRefused ==
    ~(/\ css_input = <<"a", "{", "w", ":", "1", "e", "m", ";", "}">>
      /\ css_pc = "panic" /\ css_panic = "unrecognized unit")

\* cssom.rs: Value::StringValue
StringValue(s) == [type |-> "StringValue", s |-> s]

\* The source starts with the rule a{c:"hi";w:1px;}.
StartsWithStringRule(inp) ==
    Len(inp) >= Len(StringRule) /\ SubSeq(inp, 1, Len(StringRule)) = StringRule

\* C19: a declaration whose value is a double-quoted string parses to
\* StringValue holding the text between the quotes, and the rest of the
\* rule is parsed normally after it: the rule a{c:"hi";w:1px;} at the start
\* of a source is parsed, to the declarations c: StringValue("hi") and
\* w: Length(1, Px).
C19_StringValueParsed ==
    StartsWithStringRule(css_input) =>
        /\ css_pc # "parsing" => Len(css_rules) >= 1
        /\ Len(css_rules) >= 1 =>
              css_rules[1].declarations =
                  <<Declaration("c", StringValue("hi")), Declaration("w", Length(1, Px))>>

\* The source a{c:"hi";w:1px;} has been refused at the opening quote: the
\* parser has read an empty keyword and then asked for `;`.
C19_StringRefused ==
    ~(/\ css_input = StringRule
      /\ css_pc = "panic" /\ css_panic = "assertion failed: ;" /\ css_rules = <<>>)

\* The pieces of a character sequence between the occurrences of sep; the
\* piece after the last occurrence is the last one.
RECURSIVE SplitOn(_, _, _)
SplitOn(cs, sep, cur) ==
    IF cs = <<>> THEN <<cur>>
    ELSE IF Head(cs) = sep THEN <<cur>> \o SplitOn(Tail(cs), sep, <<>>)
    ELSE SplitOn(Tail(cs), sep, Append(cur, Head(cs)))

\* The `selectors { declarations }` blocks of a source: the pieces that end
\* in `}`.
Blocks(inp) == Front(SplitOn(inp, "}", <<>>))

\* The declarations of a block as written: the pieces that end in `;` after
\* the `{`.
WrittenDeclarations(block) ==
    Front(SplitOn(Last(SplitOn(block, "{", <<>>)), ";", <<>>))

\* The property name of a written declaration.
WrittenName(piece) ==
    LET j == RunEnd(piece, 1, "whitespace")
    IN Str(SubSeq(piece, j, RunEnd(piece, j, "identifier") - 1))

\* The names of tags, ids and classes written before the `{` of a block.
RECURSIVE IdentifiersIn(_, _)
IdentifiersIn(cs, j) ==
    IF j > Len(cs) THEN {}
    ELSE IF valid_identifier_char(cs[j])
    THEN {Str(SubSeq(cs, j, RunEnd(cs, j, "identifier") - 1))}
         \cup IdentifiersIn(cs, RunEnd(cs, j, "identifier"))
    ELSE IdentifiersIn(cs, j + 1)

WrittenSelectorNames(block) == IdentifiersIn(Head(SplitOn(block, "{", <<>>)), 1)

\* The names of tags, ids and classes of the selectors of a rule.
SelectorNames(rule) ==
    UNION { (IF rule.selectors[i].tag_name.some THEN {rule.selectors[i].tag_name.v} ELSE {})
            \cup (IF rule.selectors[i].id.some THEN {rule.selectors[i].id.v} ELSE {})
            \cup {rule.selectors[i].class[k] : k \in 1..Len(rule.selectors[i].class)} :
            i \in 1..Len(rule.selectors) }

----------------------------------------------------------------------------
(* The colour values of css::parse: the sources a{c:#PPQQRR;} for pairs of *)
(* characters PP, QQ and RR.                                               *)

\* The pairs: hex digits of both cases, and pairs that are no hex digits.
ColorPairs ==
    { <<"0", "0">>, <<"f", "F">>, <<"1", "a">>, <<"+", "f">>, <<"g", "0">>, <<"é", Cont>> }

ColorSource(p1, p2, p3) ==
    <<"a", "{", "c", ":", "#">> \o p1 \o p2 \o p3 \o <<";", "}">>

InitColor ==
    /\ \E p1 \in ColorPairs, p2 \in ColorPairs, p3 \in ColorPairs :
          css_input = ColorSource(p1, p2, p3)
    /\ css_pos = 0
    /\ css_rules = <<>>
    /\ css_pc = "parsing"
    /\ css_panic = ""
    /\ StyleIdle /\ LayIdle /\ PaintIdle /\ PdfIdle /\ HtmlIdle

SpecColor == InitColor /\ [][NextCss]_vars

\* The value of a hexadecimal digit, 16 for any other character.
HexDigit(c) ==
    CASE c = "0" -> 0 [] c = "1" -> 1 [] c = "2" -> 2 [] c = "3" -> 3 [] c = "4" -> 4
      [] c = "5" -> 5 [] c = "6" -> 6 [] c = "7" -> 7 [] c = "8" -> 8 [] c = "9" -> 9
      [] c \in {"a", "A"} -> 10 [] c \in {"b", "B"} -> 11 [] c \in {"c", "C"} -> 12
      [] c \in {"d", "D"} -> 13 [] c \in {"e", "E"} -> 14 [] c \in {"f", "F"} -> 15
      [] OTHER -> 16

\* The six characters after the `#` of the source are hexadecimal digits.
SixHexDigits(inp) == \A i \in 6..11 : HexDigit(inp[i]) < 16

\* C21: `#` and six hexadecimal digits parse to ColorValue with r, g and b
\* the values of the first, second and third pair of digits and alpha 255,
\* and exactly seven characters are consumed: the rule is parsed, and the
\* cursor stands behind its `}`.
C21_ColorFromHexPairs ==
    SixHexDigits(css_input) =>
        /\ css_pc # "panic"
        /\ parse_color(css_input, 4).ok /\ parse_color(css_input, 4).pos = 4 + 7
        /\ css_pc = "done" =>
              /\ css_pos = Len(css_input)
              /\ css_rules =
                    << Rule(<<SimpleSelector(Some("a"), None, <<>>)>>,
                            <<Declaration("c",
                                ColorValue(16 * HexDigit(css_input[6]) + HexDigit(css_input[7]),
                                           16 * HexDigit(css_input[8]) + HexDigit(css_input[9]),
                                           16 * HexDigit(css_input[10]) + HexDigit(css_input[11]),
                                           255))>>) >>

\* C21 witness: the colour #1afF00, three different pairs in both cases,
\* parsed to (26, 255, 0, 255).
C21_Witness ==
    /\ css_input = ColorSource(<<"1", "a">>, <<"f", "F">>, <<"0", "0">>)
    /\ css_pc = "done"
    /\ css_rules[1].declarations[1].value = ColorValue(26, 255, 0, 255)

----------------------------------------------------------------------------
(* The cascade from source text: main.rs parses the stylesheet with        *)
(* css::parse and hands it to style_tree with the document root.           *)

\*   .c, #i{w:2px;}            selectors written lowest specificity first
\*   a, a.c, .c.d{w:1px;}      three selectors of three specificities
\*   *{d:block;}               the universal selector
\*   b#i{w:3px;w:4px;}         one property declared twice
\*   .c{w:5px;}  .d{w:6px;}    equal specificity, one property
\*   a{w:1em;}                 a unit that is refused
CascadeFragments ==
    { <<".", "c", ",", " ", "#", "i", "{", "w", ":", "2", "p", "x", ";", "}">>,
      <<"a", ",", " ", "a", ".", "c", ",", " ", ".", "c", ".", "d", "{",
        "w", ":", "1", "p", "x", ";", "}">>,
      <<"*", "{", "d", ":", "b", "l", "o", "c", "k", ";", "}">>,
      <<"b", "#", "i", "{", "w", ":", "3", "p", "x", ";", "w", ":", "4", "p", "x", ";", "}">>,
      <<".", "c", "{", "w", ":", "5", "p", "x", ";", "}">>,
      <<".", "d", "{", "w", ":", "6", "p", "x", ";", "}">>,
      <<"a", "{", "w", ":", "1", "e", "m", ";", "}">> }

CascadeSources == { Concat(fs) : fs \in SeqsUpTo(CascadeFragments, MaxCssRules) }

CascadeDoms ==
    { elem("a", IdAttr(<<"i">>) @@ ClassAttr(<<"c", " ", "d">>), <<>>),
      elem("a", ClassAttr(<<"c">>), <<text("hi")>>),
      elem("b", IdAttr(<<"i">>), <<>>),
      elem("a", NoAttrs, <<elem("b", ClassAttr(<<"d">>), <<>>)>>),
      elem("p", ClassAttr(<<"c", "d">>), <<elem("p", ClassAttr(<<"d", " ", " ", "c">>), <<>>)>>) }

InitCascade ==
    /\ css_input \in CascadeSources
    /\ css_pos = 0
    /\ css_rules = <<>>
    /\ css_pc = "parsing"
    /\ css_panic = ""
    /\ root_node \in CascadeDoms
    /\ stylesheet = NoValue
    /\ style_root = NoValue
    /\ style_pc = "idle"
    /\ LayIdle /\ PaintIdle /\ PdfIdle /\ HtmlIdle

\* main: the stylesheet that css::parse returned goes to style_tree.
UseStylesheet ==
    /\ css_pc = "done"
    /\ style_pc = "idle"
    /\ stylesheet' = [rules |-> css_rules]
    /\ style_pc' = "start"
    /\ UNCHANGED <<root_node, style_root>>
    /\ UNCHANGED cssVars /\ UNCHANGED layVars /\ UNCHANGED paintVars
    /\ UNCHANGED pdfVars /\ UNCHANGED htmlVars

NextCascade ==
    CssParseRule \/ CssParseDone \/ CssParsePanic \/ UseStylesheet \/ StyleTree

SpecCascade == InitCascade /\ [][NextCascade]_vars

\* The elements of a DOM tree.
Elements(n) == { x.node_type : x \in { y \in DomNodes(n) : y.node_type.kind = "Element" } }

\* The selectors of a rule that match an element.
Hits(e, rule) == { i \in 1..Len(rule.selectors) : matches(e, rule.selectors[i]) }

\* A triple of counts below 10 as one number: the order of the numbers is
\* the lexicographic order of the triples.
Weight(t) == 100 * t[1] + 10 * t[2] + t[3]

Sign(n) == IF n < 0 THEN -1 ELSE IF n > 0 THEN 1 ELSE 0

\* C22: specificity is (ids, classes, tag names), compared
\* lexicographically; css::parse orders the selectors of each rule by
\* non-increasing specificity; and for a stylesheet that css::parse produced
\* the specificity that match_rule gives with a matched rule is the maximum
\* among the rule's selectors that match the element.
C22_SelectorsMostSpecificFirst ==
    /\ \A r \in 1..Len(css_rules) :
          LET sels == css_rules[r].selectors
          IN  /\ \A i \in 1..Len(sels) :
                    specificity(sels[i]) =
                        << IF sels[i].id.some THEN 1 ELSE 0,
                           Len(sels[i].class),
                           IF sels[i].tag_name.some THEN 1 ELSE 0 >>
              /\ \A i, j \in 1..Len(sels) :
                    cmp(specificity(sels[i]), specificity(sels[j])) =
                        Sign(Weight(specificity(sels[i])) - Weight(specificity(sels[j])))
              /\ \A i, j \in 1..Len(sels) :
                    i < j => Weight(specificity(sels[i])) >= Weight(specificity(sels[j]))
    /\ style_pc \in {"start", "styled"} =>
          \A e \in Elements(root_node) : \A r \in 1..Len(stylesheet.rules) :
              LET rule == stylesheet.rules[r]
              IN  /\ Hits(e, rule) = {} <=> match_rule(e, rule) = None
                  /\ Hits(e, rule) # {} =>
                        /\ match_rule(e, rule).v.rule = rule
                        /\ \E i \in Hits(e, rule) :
                              match_rule(e, rule).v.specificity = specificity(rule.selectors[i])
                        /\ \A i \in Hits(e, rule) :
                              Weight(match_rule(e, rule).v.specificity)
                                  >= Weight(specificity(rule.selectors[i]))

\* C22 witness: the rule `.c, #i{...}`, whose selectors css::parse has put in
\* the order #i, .c, matched against an element that both selectors match:
\* match_rule gives (1, 0, 0).
C22_Witness ==
    /\ style_pc = "styled"
    /\ \E r \in 1..Len(stylesheet.rules) : \E e \in Elements(root_node) :
          LET rule == stylesheet.rules[r]
          IN  /\ Len(rule.selectors) = 2
              /\ rule.selectors[1].id = Some("i")
              /\ rule.selectors[2].class = <<"c">>
              /\ Hits(e, rule) = {1, 2}
              /\ match_rule(e, rule).v.specificity = <<1, 0, 0>>

\* The space-separated tokens of an attribute value: the pieces that reach
\* from the start or a space to the next space or the end.
TokensOf(cs) ==
    { Str(SubSeq(cs, i, j)) :
        <<i, j>> \in { p \in (1..(Len(cs) + 1)) \X (0..Len(cs)) :
                         /\ p[1] <= p[2] + 1
                         /\ p[1] = 1 \/ cs[p[1] - 1] = " "
                         /\ p[2] = Len(cs) \/ cs[p[2] + 1] = " "
                         /\ \A k \in p[1]..p[2] : cs[k] # " " } }

\* The selectors of the rules that css::parse has returned so far.
ParsedSelectors ==
    UNION { { css_rules[r].selectors[i] : i \in 1..Len(css_rules[r].selectors) } :
            r \in 1..Len(css_rules) }

\* C23: an element matches a simple selector if and only if the selector's
\* tag name, when present, is the element's tag name, its id, when present,
\* is the element's id attribute, and each of its classes is one of the
\* space-separated tokens of the element's class attribute; a selector with
\* no tag, id or class matches every element.
C23_MatchesSimpleSelector ==
    \A e \in Elements(root_node) : \A s \in ParsedSelectors :
        /\ matches_simple_selector(e, s) <=>
              /\ s.tag_name.some => e.tag_name = s.tag_name.v
              /\ s.id.some =>
                    "id" \in DOMAIN e.attributes /\ Str(e.attributes["id"]) = s.id.v
              /\ \A k \in 1..Len(s.class) :
                    /\ "class" \in DOMAIN e.attributes
                    /\ s.class[k] \in TokensOf(e.attributes["class"])
        /\ (~s.tag_name.some /\ ~s.id.some /\ s.class = <<>>) => matches_simple_selector(e, s)

\* C23 witness: the selector .c.d matches the element of class `d  c` and
\* not the element of class `cd`, and the selector `*` matches both.
C23_Witness ==
    /\ css_pc = "done"
    /\ \E s \in ParsedSelectors : \E e1, e2 \in Elements(root_node) :
          /\ s.class = <<"c", "d">>
          /\ e1.attributes = ClassAttr(<<"d", " ", " ", "c">>)
          /\ e2.attributes = ClassAttr(<<"c", "d">>)
          /\ matches_simple_selector(e1, s)
          /\ ~matches_simple_selector(e2, s)
    /\ \E s \in ParsedSelectors :
          /\ ~s.tag_name.some /\ ~s.id.some /\ s.class = <<>>
          /\ \A e \in Elements(root_node) : matches_simple_selector(e, s)

\* The properties that the rules of the cascade sources declare.
CascadeProps == {"w", "d"}

\* Among the rules that match e and declare p, those of highest specificity.
TopDeciders(e, p) ==
    { i \in Deciders(e, p) :
        \A j \in Deciders(e, p) :
            Weight(match_rule(e, stylesheet.rules[j]).v.specificity)
                <= Weight(match_rule(e, stylesheet.rules[i]).v.specificity) }

\* The greatest number of a non-empty set of numbers.
Greatest(S) == CHOOSE i \in S : \A j \in S : j <= i

\* C24: among matching rules of equal specificity that declare the same
\* property the rule later in the stylesheet gives the value, and within a
\* rule that declares a property twice the later declaration does: the
\* mapping holds the last value of the property in the last of the matching
\* rules of highest specificity.
C24_LaterRuleAndDeclarationWin ==
    style_pc = "styled" =>
        \A sn \in StyledNodes(style_root) : IsElement(sn) =>
            \A p \in CascadeProps :
                Deciders(sn.node.node_type, p) # {} =>
                    /\ p \in DOMAIN sn.specified_values
                    /\ sn.specified_values[p] =
                          LastValue(stylesheet.rules[Greatest(TopDeciders(sn.node.node_type, p))], p)

\* C24 witness: an element matched by two rules of equal specificity that
\* give one property different values holds the value of the later rule.
C24_Witness ==
    /\ style_pc = "styled"
    /\ \E sn \in StyledNodes(style_root) : IsElement(sn) /\
          \E i, j \in TopDeciders(sn.node.node_type, "w") :
              /\ i < j
              /\ LastValue(stylesheet.rules[i], "w") # LastValue(stylesheet.rules[j], "w")
              /\ sn.specified_values["w"] = LastValue(stylesheet.rules[j], "w")

\* An element matched by a rule that declares one property twice holds the
\* value of the later declaration.
C24_WitnessTwice ==
    /\ style_pc = "styled"
    /\ \E sn \in StyledNodes(style_root) : IsElement(sn) /\
          \E i \in TopDeciders(sn.node.node_type, "w") :
              /\ Len(stylesheet.rules[i].declarations) = 2
              /\ stylesheet.rules[i].declarations[1].value = Length(3, Px)
              /\ sn.specified_values["w"] = Length(4, Px)

\* Every character of the sequence is whitespace.
AllWhitespace(cs) == \A i \in 1..Len(cs) : is_whitespace(cs[i])

\* The source holds a rule that is cut short: text after the last `}` (the
\* input ends inside a selector list or a declaration block), a block with
\* no `{`, a declaration with no `;` after it, or a declaration with no `:`.
CutShort(inp) ==
    \/ ~AllWhitespace(Last(SplitOn(inp, "}", <<>>)))
    \/ \E b \in 1..Len(Blocks(inp)) :
          \/ Len(SplitOn(Blocks(inp)[b], "{", <<>>)) < 2
          \/ ~AllWhitespace(Last(SplitOn(Last(SplitOn(Blocks(inp)[b], "{", <<>>)), ";", <<>>)))
          \/ \E k \in 1..Len(WrittenDeclarations(Blocks(inp)[b])) :
                Len(SplitOn(WrittenDeclarations(Blocks(inp)[b])[k], ":", <<>>)) < 2

\* C25: css::parse never returns a partial stylesheet: when it returns, the
\* cursor is at the end of the input, the rules are the blocks of the source
\* and what follows the last block is whitespace; a source with a rule that
\* is cut short gets no stylesheet.
C25_NoPartialStylesheet ==
    /\ css_pc = "done" =>
          /\ css_pos = Len(css_input)
          /\ Len(css_rules) = Len(Blocks(css_input))
          /\ AllWhitespace(Last(SplitOn(css_input, "}", <<>>)))
    /\ CutShort(css_input) => css_pc # "done"

\* C25 witness: a source with a complete rule and then a declaration with
\* no `;`: the first rule was parsed, and the parser has ended in a panic.
C25_Witness ==
    /\ css_pc = "panic"
    /\ Len(css_rules) = 1
    /\ Len(Blocks(css_input)) = 2
    /\ CutShort(css_input)
    /\ css_panic = "assertion failed: ;"

\* ---------------------------------------------------------------------------
\* The shape of the styled tree (style.rs 55-70).

\* sn has the shape of the DOM node n: it refers to n, has as many children,
\* and its i-th child is what style_tree makes of n's i-th child, at every
\* depth.
RECURSIVE SameShape(_, _, _)
SameShape(sn, n, sheet) ==
    /\ sn.node = n
    /\ Len(sn.children) = Len(n.children)
    /\ \A i \in 1..Len(n.children) :
          /\ sn.children[i] = style_tree(n.children[i], sheet)
          /\ SameShape(sn.children[i], n.children[i], sheet)

ConsumesAtCursor ==
    /\ html_pc = "parsing"
    /\ html_pos < byte_len(html_input)
    /\ is_char_boundary(html_input, html_pos)
    /\ ~is_whitespace(html_input[html_pos + 1])
    /\ ~starts_with(html_input, html_pos, <<"<", "/">>).v

\* C27: after the consume_char on the character at the cursor the position
\* is at most the length of the input, lies on a character boundary, and has
\* advanced by exactly the byte length of the character consumed.
C27_CursorValidAfterConsumeChar ==
    ConsumesAtCursor =>
        LET after == consume_char(html_input, html_pos)
        IN  /\ after.ok
            /\ after.pos <= byte_len(html_input)
            /\ is_char_boundary(html_input, after.pos)
            /\ after.pos = html_pos + len_utf8(html_input, html_pos)

\* The character at the cursor has one byte, or is not the last of the
\* input: there the position after consume_char is as C27 says.
C27_ValidBeforeLastCharacter ==
    (/\ ConsumesAtCursor
     /\ \/ len_utf8(html_input, html_pos) = 1
        \/ html_pos + len_utf8(html_input, html_pos) < byte_len(html_input)) =>
        LET after == consume_char(html_input, html_pos)
        IN  /\ after.ok
            /\ after.pos <= byte_len(html_input)
            /\ is_char_boundary(html_input, after.pos)
            /\ after.pos = html_pos + len_utf8(html_input, html_pos)

\* The last character of the input has two bytes and the cursor is on it.
C27_LastCharacterMultiByte ==
    ~(/\ ConsumesAtCursor
      /\ html_pos > 0
      /\ html_pos + 2 = byte_len(html_input)
      /\ len_utf8(html_input, html_pos) = 2
      /\ consume_char(html_input, html_pos).pos = html_pos + 1)

\* ---------------------------------------------------------------------------
\* The two parsers as main runs them (main.rs 69-72): html::parse on the
\* HTML source, then css::parse on the CSS source.

MaxHtmlPieces == 2    \* pieces per HTML source
MaxCssPieces == 1     \* rule fragments per CSS source

\* The pairs of sources: an HTML source with the empty stylesheet source, or
\* the empty document with a CSS source.
InitParse ==
    /\ html_tokens \in SeqsUpTo(HtmlTokens, MaxHtmlPieces)
    /\ html_input = Concat(html_tokens)
    /\ html_pos = 0
    /\ html_nodes = <<>>
    /\ html_root = NoValue
    /\ html_pc = "parsing"
    /\ css_input \in { Concat(fs) : fs \in SeqsUpTo(CssFragments, MaxCssPieces) }
    /\ html_tokens = <<>> \/ css_input = <<>>
    /\ css_pos = 0
    /\ css_rules = <<>>
    /\ css_pc = "waiting"
    /\ css_panic = ""
    /\ StyleIdle /\ LayIdle /\ PaintIdle /\ PdfIdle

\* main.rs: let stylesheet = css::parse(css), once html::parse has returned.
CallCssParse ==
    /\ html_pc = "done"
    /\ css_pc = "waiting"
    /\ css_pc' = "parsing"
    /\ UNCHANGED <<css_input, css_pos, css_rules, css_panic>>
    /\ UNCHANGED htmlVars
    /\ UNCHANGED styleVars /\ UNCHANGED layVars /\ UNCHANGED paintVars
    /\ UNCHANGED pdfVars

NextParse ==
    \/ HtmlParseNode \/ HtmlParseDone \/ HtmlParsePanic
    \/ CallCssParse
    \/ CssParseRule \/ CssParseDone \/ CssParsePanic

\* The program runs on as long as it has a step to take.
SpecParse == InitParse /\ [][NextParse]_vars /\ WF_vars(NextParse)

\* The result r of a step taken at position p of inp is a panic, or its
\* cursor is past p and within the input.
Advances(inp, p, r) == r.ok => (r.pos > p /\ r.pos <= byte_len(inp))

\* The bodies of the loops of the HTML parser, at position p of inp: the
\* loop of the nodes goes on after a parse_node, the loop of the attributes
\* after a parse_attr, the comment body and the loops of consume_while
\* after a consume_char.
HtmlLoopBodiesAdvance(inp, p) ==
    /\ Advances(inp, p, consume_char(inp, p))
    /\ Advances(inp, p, parse_attr(inp, p))
    /\ Advances(inp, p, parse_node(inp, p))

\* The bodies of the loops of the CSS parser, at position p of inp: the
\* loop of the rules goes on after a parse_rule, the selector list after a
\* consume_char on `,`, a simple selector after consume_char and
\* parse_identifier or after a parse_identifier that starts with an
\* identifier character, the declarations after a parse_declaration, and
\* the loops of consume_while after a consume_char.
CssLoopBodiesAdvance(inp, p) ==
    /\ Advances(inp, p, consume_char(inp, p))
    /\ Advances(inp, p, char_then_identifier(inp, p))
    /\ Advances(inp, p, char_then_whitespace(inp, p))
    /\ (p < byte_len(inp) /\ valid_identifier_char(inp[p + 1])) =>
          Advances(inp, p, parse_identifier(inp, p))
    /\ Advances(inp, p, parse_declaration(inp, p))
    /\ Advances(inp, p, parse_rule(inp, p))

\* A step of the loop of parse_nodes or of parse_rules that does not end the
\* parser moves its cursor forward, and not past the end of the input.
TopLoopsAdvance ==
    /\ (html_pc = "parsing" /\ html_pc' = "parsing") =>
          (html_pos' > html_pos /\ html_pos' <= byte_len(html_input))
    /\ (css_pc = "parsing" /\ css_pc' = "parsing") =>
          (css_pos' > css_pos /\ css_pos' <= byte_len(css_input))

\* html::parse has returned or panicked, and css::parse too if it was called.
ParsersEnded ==
    /\ html_pc \in {"done", "panic"}
    /\ html_pc = "done" => css_pc \in {"done", "panic"}

\* C28: every iteration of every parsing loop (rules, selectors,
\* declarations, nodes, attributes, comment body) strictly advances the
\* cursor or ends in a panic, at every position of the two sources, and the
\* cursor never passes the end of the source: the parsers take at most as
\* many steps as the source has bytes.
C28_EveryIterationAdvances ==
    /\ [](\A p \in 0..byte_len(html_input) : HtmlLoopBodiesAdvance(html_input, p))
    /\ [](\A p \in 0..byte_len(css_input) : CssLoopBodiesAdvance(css_input, p))
    /\ [][TopLoopsAdvance]_vars

\* Both parsers come to an end on every source.
C28_ParsersEnd == <>[]ParsersEnded

\* html::parse has come to its end through the loops of the nodes, of the
\* attributes and of a comment body, and css::parse after it.
C28_Witness ==
    /\ html_tokens = <<OpenWithId, CommentC>>
    /\ html_pc = "done"
    /\ html_pos = byte_len(html_input)
    /\ Len(html_nodes) = 1
    /\ css_pc = "done"

\* ---------------------------------------------------------------------------
\* What html::parse leaves unread (html.rs 127-137, 207-216).

\* C29: when html::parse returns a tree, the cursor is at the end of the
\* input: the whole source has been consumed.
C29_WholeSourceConsumed ==
    html_pc = "done" => html_pos = byte_len(html_input)

\* A closing tag that no open element waits for is at the cursor, at the top
\* level of the document.
StrayClosingTag ==
    /\ html_pos < byte_len(html_input)
    /\ is_char_boundary(html_input, html_pos)
    /\ starts_with(html_input, html_pos, <<"<", "/">>).v

\* A tree is returned with input left over only at a stray closing tag.
C29_LeftOverOnlyAtClosingTag ==
    (html_pc = "done" /\ html_pos # byte_len(html_input)) => StrayClosingTag

\* A text after a stray closing tag is not in the tree returned.
C29_TextLeftOut ==
    ~(/\ html_pc = "done"
      /\ html_tokens = <<CloseP, TextHi>>
      /\ html_root = elem("html", EmptyMap, <<>>)
      /\ html_pos = 0)

\* ---------------------------------------------------------------------------
\* The Text nodes of the tree (html.rs 75-77, 113-137).

\* The Text nodes read so far, at every depth.
TextNodesRead ==
    UNION { {n \in DomNodes(html_nodes[i]) : n.node_type.kind = "Text"} :
            i \in 1..Len(html_nodes) }

\* The runs of characters of the source that start with a character other
\* than whitespace and hold no `<`, as strings.
TextRuns(inp) ==
    { Str(CharsOf(SubSeq(inp, i, j))) :
        <<i, j>> \in { ij \in (1..Len(inp)) \X (1..Len(inp)) :
                         /\ ij[1] <= ij[2]
                         /\ is_char_boundary(inp, ij[1] - 1)
                         /\ ~is_whitespace(inp[ij[1]])
                         /\ \A k \in ij[1]..ij[2] : inp[k] # "<" } }

\* C30: every Text node of the tree is not empty, starts with a character
\* that is not whitespace and holds no `<`: its data is one of the runs of
\* the source of that form, and so never a run of whitespace between two
\* nodes or after a tag.
C30_TextNodesStartWithText ==
    \A n \in TextNodesRead :
        /\ n.node_type.data # ""
        /\ n.node_type.data \in TextRuns(html_input)
        /\ n.children = <<>>

\* The whitespace between a tag and a text, and between a text's end and
\* the next tag, was read: the text is the one Text node of the tree.
C30_Witness ==
    /\ html_pc = "done"
    /\ html_tokens = <<OpenP, Blank, TextHi>>
    /\ TextNodesRead = {text("hi")}

====
